---- MODULE Spec2Model ----
(***************************************************************************)
(* LogHeal remediation pipeline (orchestrator.py).                         *)
(*                                                                         *)
(* One Orchestrator instance on one repository clone: process_logs drives  *)
(* LogAnalyzer -> ErrorLocator -> SolutionArchitect -> CodeGenerator ->    *)
(* GitManager.  Every completion call, every observer callback and every   *)
(* git subprocess is an input of the environment, drawn with \E.           *)
(*                                                                         *)
(* Paths are sequences of path components.  Strings that the code          *)
(* transforms (error_type -> branch slug) are sequences of characters.     *)
(* The Python "" / [] / {} (falsy, empty) is the empty sequence.           *)
(***************************************************************************)
EXTENDS Integers, Sequences, FiniteSets, TLC

VARIABLES
    pc,             \* position of process_logs / create_fix_branch
    rag,            \* Orchestrator.codebase_provider is not None
    repo_path,      \* CodebaseProvider.repo_path, as path components
    class_index,    \* CodebaseProvider.class_index: class name -> paths
    query,          \* the arguments of a find_relevant_files call, if any
    relevant_files, \* what that call returned
    reply,          \* a completion reply handed to a stage's parsing, if any
    parsed,         \* what the stage made of it
    file_index,     \* CodebaseProvider.file_index : filename -> full path
    logs,           \* elk_logs_json of the call
    file_contents,  \* file_contents of the call : key -> preloaded text
    callback,       \* save_changes_callback is supplied
    analysis,       \* <<>> or <<LogAnalysis>>
    error_context,  \* <<>> or <<ErrorContext>>
    solution,       \* <<>> or <<Solution>>
    gen_i,          \* generate_fix: index of the next affected file
    fixed_files,    \* dict of generate_fix, insertion-ordered: Seq of [k, c]
    gen_calls,      \* generate_fix: the completion calls made, in order
    cb_i,           \* callback loop: index of the next fixed file
    cb_log,         \* the (filename, original, fixed) triples delivered,
                    \* each tagged with the fixed_files key it was made for
    branch_name,    \* create_fix_branch: the derived branch name
    write_i,        \* create_fix_branch: index of the next file to write
    branches,       \* git: the refs under refs/heads
    head,           \* git: the checked-out branch
    prev,           \* git: the branch checked out before (what "-" names)
    tree,           \* git: branch -> tree of its tip commit
    commits,        \* git: branch -> the commits made on it since the clone
    index,          \* git: the staging area
    wt,             \* the working tree : full path -> content
    git_log,        \* the git subprocesses and file writes run so far
    result,         \* <<>> or <<GitOperation>> returned by process_logs
    raised,         \* "" or the exception that left process_logs
    invoked,        \* agent -> number of invocations in this run
    completions,    \* number of completion calls (call_claude) in this run
    rl,             \* a RateLimiter (utils.py) and the clock it reads
    breaker,        \* a CircuitBreaker (utils.py) and the clock it reads
    cache,          \* a SimpleCache (utils.py) and the clock it reads
    rt,             \* one call of a function wrapped with utils.retry
    last_scanned,   \* history: filename -> the indexed file rglob yielded last
    other           \* <<>> or << a second run on the clone, while it is not running >>

vars == <<pc, rag, file_index, logs, file_contents, callback, analysis,
          error_context, solution, gen_i, fixed_files, gen_calls, cb_i,
          cb_log, branch_name, write_i, branches, head, prev, tree, commits,
          index,
          wt, git_log, result, raised, invoked, completions, rl,
          repo_path, class_index, query, relevant_files, reply, parsed,
          breaker, cache, rt, last_scanned, other>>

(***************************************************************************)
(* Bounds of the model.                                                    *)
(***************************************************************************)
\* longest Solution.affected_files a completion reply carries
MaxFiles == 2
\* number of distinct clock readings (seconds) datetime.now() can give
MaxTime == 2

(***************************************************************************)
(* The universe: a small source tree.                                      *)
(***************************************************************************)
RepoRoot == <<"repo">>

\* the affected-file identifiers a completion reply may name
FileKeys == { <<"a", "F.java">>, <<"b", "F.java">>, <<"G.java">> }

\* os.path.join(repo_path, file_path), file_path relative
PathJoin(root, rel) == root \o rel

FullPaths == { PathJoin(RepoRoot, k) : k \in FileKeys }

\* os.path.basename / Path.name
Basename(p) == p[Len(p)]

FileNames == { Basename(k) : k \in FileKeys }

NoFile == "<absent>"

\* a file that exists but whose read raises
Unreadable == "<unreadable>"
Contents == { "v0", "v1" }

Agents == { "LogAnalyzer", "ErrorLocator", "SolutionArchitect",
            "CodeGenerator", "GitManager" }

(***************************************************************************)
(* CodebaseProvider: the retrieval index.                                  *)
(***************************************************************************)
\* _build_index: excluded_dirs
ExcludedDirs == { ".venv", "venv", "env", "node_modules", ".git",
                  "__pycache__", "bin", "obj", "build", "dist",
                  ".pytest_cache", ".mypy_cache", "site-packages", "Lib",
                  "lib", "packages" }

\* CodebaseProvider.__init__: file_extensions
FileExtensions == { ".py", ".java", ".cs", ".js", ".ts", ".go", ".rb" }

\* Path.suffix of the filenames of the universe
Suffix(name) ==
    CASE name = "F.java" -> ".java"
      [] name = "G.java" -> ".java"
      [] name = "notes.txt" -> ".txt"
      [] OTHER -> ""

\* the words of the texts of the universe, as the class patterns see them:
\* c0 and c1 declare classes, v0 declares none, v1 one
WordsOf(text) ==
    CASE text = "c0" -> << "public", "class", "Foo", "{", "}" >>
      [] text = "c1" -> << "interface", "Bar", "{", "}", "class", "Foo" >>
      [] text = "v1" -> << "class", "Fix", "{", "}" >>
      [] OTHER -> <<>>

\* a word the group (\w+) matches
IsName(w) == w \notin { "{", "}" }

\* _build_index: class_patterns, each as the words before the captured name
ClassPatterns == << <<"class">>, <<"interface">>, <<"public", "class">> >>

\* re.findall(pattern, content): the captured names, left to right, from
\* word i on
RECURSIVE FindAll(_, _, _)
FindAll(pat, words, i) ==
    IF i + Len(pat) > Len(words) THEN <<>>
    ELSE IF /\ SubSeq(words, i, i + Len(pat) - 1) = pat
            /\ IsName(words[i + Len(pat)])
         THEN << words[i + Len(pat)] >>
                  \o FindAll(pat, words, i + Len(pat) + 1)
         ELSE FindAll(pat, words, i + 1)

\* the names the three patterns find in a text, pattern by pattern
ClassMatches(text) ==
    FindAll(ClassPatterns[1], WordsOf(text), 1)
        \o FindAll(ClassPatterns[2], WordsOf(text), 1)
        \o FindAll(ClassPatterns[3], WordsOf(text), 1)

\* _build_index: the test a scanned path passes to be registered
Indexable(p) ==
    /\ \A i \in 1..Len(p) : p[i] \notin ExcludedDirs
    /\ Suffix(Basename(p)) \in FileExtensions

EmptyMap == [x \in {} |-> <<>>]

\* dict[key] = value
MapPut(m, k, v) == [x \in (DOMAIN m) \cup {k} |-> IF x = k THEN v ELSE m[x]]

\* the first file scanned under a filename keeps the entry
RECURSIVE BuildFileIndexFirstWins(_)
BuildFileIndexFirstWins(order) ==
    IF order = <<>> THEN EmptyMap
    ELSE LET n    == Len(order)
             p    == order[n]
             rest == BuildFileIndexFirstWins(SubSeq(order, 1, n - 1))
         IN  IF Indexable(p) /\ Basename(p) \notin DOMAIN rest
             THEN MapPut(rest, Basename(p), p)
             ELSE rest

\* _build_index: file_index after scanning the paths of `order` one by one;
\* a later path with the same filename replaces the earlier one
RECURSIVE BuildFileIndex(_)
BuildFileIndex(order) ==
    IF order = <<>> THEN EmptyMap
    ELSE LET n    == Len(order)
             p    == order[n]
             rest == BuildFileIndex(SubSeq(order, 1, n - 1))
         IN  IF Indexable(p) THEN MapPut(rest, Basename(p), p) ELSE rest

\* history of the scan: for each filename of an indexed file, the file with
\* that name that rglob yielded last
LastScanned(order) ==
    LET idx   == { i \in 1..Len(order) : Indexable(order[i]) }
        names == { Basename(order[i]) : i \in idx }
    IN  [ nm \in names |->
            order[CHOOSE i \in idx :
                    /\ Basename(order[i]) = nm
                    /\ \A j \in idx : Basename(order[j]) = nm => j <= i] ]

\* class_index[class_name].append(str(file_path)) for each name in turn
RECURSIVE AppendPath(_, _, _)
AppendPath(ci, names, p) ==
    IF names = <<>> THEN ci
    ELSE LET c    == names[1]
             have == IF c \in DOMAIN ci THEN ci[c] ELSE <<>>
         IN  AppendPath(MapPut(ci, c, Append(have, p)), Tail(names), p)

\* _build_index: class_index after scanning the paths of `order` one by one
\* in the tree w; a file whose read raises contributes nothing
RECURSIVE BuildClassIndex(_, _)
BuildClassIndex(order, w) ==
    IF order = <<>> THEN EmptyMap
    ELSE LET n    == Len(order)
             p    == order[n]
             rest == BuildClassIndex(SubSeq(order, 1, n - 1), w)
         IN  IF Indexable(p) /\ w[p] # Unreadable
             THEN AppendPath(rest, ClassMatches(w[p]), p)
             ELSE rest

\* the files present under repo_path in a working tree
FilesIn(w) == { p \in DOMAIN w : w[p] # NoFile }

\* the orders in which Path.rglob('*') may yield a set of files
ScanOrders(S) ==
    { o \in [1..Cardinality(S) -> S] :
        \A i, j \in 1..Cardinality(S) : i # j => o[i] # o[j] }

\* CodebaseProvider.get_file_content: the text, or the read error as text
ReadError == "[Error reading file]"
GetFileContent(w, p) ==
    IF p \in DOMAIN w /\ w[p] \notin {NoFile, Unreadable} THEN w[p]
    ELSE ReadError

(***************************************************************************)
(* The repository clone the Orchestrator is constructed on.                *)
(***************************************************************************)
MainBranch == <<"main">>

\* a fresh clone: no commit has been made on its branch yet
NoCommits == [b \in {MainBranch} |-> <<>>]

\* the committed trees the clone may start with
InitialTrees ==
    { t \in [FullPaths -> Contents \cup {NoFile}] :
        /\ t[PathJoin(RepoRoot, <<"a", "F.java">>)] = "v0"
        /\ \A p \in FullPaths : t[p] \in {"v0", NoFile} }

\* a working tree: the committed tree, possibly with one uncommitted edit
WorkingTreesOf(t) ==
    {t} \cup { [t EXCEPT ![p] = "v1"] : p \in { PathJoin(RepoRoot, <<"a", "F.java">>) } }

\* GitOperation(...)
GitOperation(b, m, f, s) ==
    [branch_name |-> b, commit_message |-> m, files_changed |-> f, success |-> s]


(***************************************************************************)
(* Inputs of one process_logs call and the replies of the completion       *)
(* endpoint, as the stage agents see them after parsing.                   *)
(***************************************************************************)
\* elk_logs_json
LogBatches == { <<>>, <<"log">> }

\* file_contents: nothing preloaded, or one file preloaded
Preloaded ==
    { EmptyMap,
      MapPut(EmptyMap, <<"G.java">>, "v0"),
      MapPut(EmptyMap, <<"a", "F.java">>, "v1") }

\* file_contents.get(file_path, "")
NoText == ""
DictGet(m, k) == IF k \in DOMAIN m THEN m[k] ELSE NoText

\* LogAnalysis(...): the fields the pipeline's control flow reads
LogAnalysis(et, files) == [error_type |-> et, affected_files |-> files]

\* the LogAnalysis values analyze_logs may build from a reply
AnalysisReplies ==
    { LogAnalysis(<<"N", "_">>, <<>>),
      LogAnalysis(<<"n", " ">>, << <<"G.java">> >>),
      LogAnalysis(<<"N", "P">>, << <<"a", "F.java">> >>) }

\* ErrorContext(...): error_location defaults to 'Unknown'
ErrorContext(loc) == [error_location |-> loc]
ContextReplies == { ErrorContext("Unknown"), ErrorContext("F.java:45") }

\* Solution(...): affected_files is an ordered list, duplicates possible
Solution(files) == [affected_files |-> files]
AffectedLists == UNION { [1..n -> FileKeys] : n \in 0..MaxFiles }

\* what one completion call plus parsing can end in besides a typed result:
\* call_claude raising, or json.loads / the mapping check raising
StageFailures == { "transport_error", "contract_violation" }

(***************************************************************************)
(* Pure helpers of the stage agents.                                       *)
(***************************************************************************)
\* str.lower() on the characters of the universe
Lower(c) ==
    CASE c = "N" -> "n"
      [] c = "P" -> "p"
      [] OTHER -> c

\* analysis.error_type.lower().replace(' ', '-').replace('_', '-')
Slug(et) ==
    [i \in 1..Len(et) |->
        IF Lower(et[i]) = " " \/ Lower(et[i]) = "_" THEN "-" ELSE Lower(et[i])]

\* f"fix/{error_slug}-{timestamp}"
BranchNameOf(et, now) == <<"fix/", Slug(et), now>>

\* the commit message: f"Fix: {analysis.error_type} ..."
CommitMessageOf(a) == <<"Fix: ", a.error_type>>

\* fixed_files[file_path] = fixed_content on an insertion-ordered dict
DictSet(d, k, v) ==
    IF \E i \in 1..Len(d) : d[i].k = k
    THEN [i \in 1..Len(d) |-> IF d[i].k = k THEN [k |-> k, c |-> v] ELSE d[i]]
    ELSE Append(d, [k |-> k, c |-> v])

\* list(fixed_files.keys())
DictKeys(d) == [i \in 1..Len(d) |-> d[i].k]

\* generate_fix: where the original content of an affected file comes from
OriginalContent(key) ==
    LET pre == DictGet(file_contents, key)
    IN  IF pre = NoText /\ rag /\ Basename(key) \in DOMAIN file_index
        THEN GetFileContent(wt, file_index[Basename(key)])
        ELSE pre

\* create_fix_branch: the path a fixed file is written to
TargetPath(key) ==
    IF rag /\ Basename(key) \in DOMAIN file_index
    THEN file_index[Basename(key)]
    ELSE PathJoin(RepoRoot, key)

(***************************************************************************)
(* The gates of process_logs.                                              *)
(***************************************************************************)
\* gate (1) left out
NoLogSelectedNever(l) == FALSE

\* if not selected_log
NoLogSelected(l) == l = <<>>

\* gate (2) left out
NoFilesToChangeNever(s) == FALSE

\* if not solution.affected_files or len(solution.affected_files) == 0
NoFilesToChange(s) == s.affected_files = <<>>

\* gate (3) left out
NoFixedFilesNever(d) == FALSE

\* if not fixed_files or len(fixed_files) == 0
NoFixedFiles(d) == d = <<>>

\* an early exit that reports a branch and a message
EarlyExitNamed == GitOperation(<<"fix">>, <<"No changes to commit">>, <<>>, FALSE)

\* the GitOperation of the three early exits
EarlyExit == GitOperation(<<>>, <<>>, <<>>, FALSE)

(***************************************************************************)
(* process_logs, stage by stage.                                           *)
(***************************************************************************)
callVars  == <<logs, file_contents, callback>>
stageVars == <<analysis, error_context, solution>>
genVars   == <<gen_i, fixed_files, gen_calls>>
cbVars    == <<cb_i, cb_log>>
repoVars  == <<branches, head, prev, tree, commits, index, wt, git_log>>
gitVars   == <<branch_name, write_i>>
ctorVars  == <<rag, repo_path, file_index, class_index, last_scanned>>

\* the other helpers of utils.py: CircuitBreaker, SimpleCache, retry
toolVars  == <<breaker, cache, rt>>

\* what process_logs leaves alone: the helpers of utils.py, a query made
\* of the index directly, and a reply parsed on its own
utilVars  == <<rl, toolVars, query, relevant_files, reply, parsed, other>>

\* `return GitOperation(...)` out of process_logs
Return(op) == pc' = "Returned" /\ result' = <<op>> /\ UNCHANGED raised

\* the Orchestrator catches the exception and returns the failure result
RaiseCaught(e) ==
    pc' = "Returned" /\ raised' = e /\ result' = <<EarlyExit>>

\* an exception leaves process_logs: no result object
Raise(e) == pc' = "Raised" /\ raised' = e /\ UNCHANGED result

\* one more invocation of an agent's entry point
Invoke(a) == invoked' = [invoked EXCEPT ![a] = @ + 1]

\* locate_error is never called: the analysis goes straight to the architect
AfterAnalyzeSkipsLocator == "Localized"

\* the stage a run is in after an agent returned its typed output
AfterAnalyze == "Analyzed"
AfterLocate  == "Localized"
AfterPropose == "Proposed"

\* the stage builds a provider of its own from the working tree
ProviderRebuilt ==
    \E o \in ScanOrders(FilesIn(wt)) :
        /\ file_index' = BuildFileIndex(o)
        /\ class_index' = BuildClassIndex(o, wt)
        /\ last_scanned' = LastScanned(o)

\* a stage is handed self.codebase_provider: the index built by __init__
ProviderHandedOver == UNCHANGED <<file_index, class_index, last_scanned>>

\* process_logs is called: gate (1), then LogAnalyzerAgent.analyze_logs
ProcessLogs ==
    /\ pc = "Idle"
    /\ \E l \in LogBatches, fc \in Preloaded, cb \in BOOLEAN :
         /\ logs' = l
         /\ file_contents' = fc
         /\ callback' = cb
         /\ IF NoLogSelected(l)
            THEN /\ Return(EarlyExit)
                 /\ UNCHANGED <<analysis, invoked, completions>>
            ELSE /\ Invoke("LogAnalyzer")
                 /\ completions' = completions + 1
                 /\ \/ \E a \in AnalysisReplies :
                         /\ analysis' = <<a>>
                         /\ pc' = AfterAnalyze
                         /\ UNCHANGED <<result, raised>>
                    \/ \E f \in StageFailures :
                         /\ Raise(f)
                         /\ UNCHANGED analysis
    /\ UNCHANGED <<error_context, solution, genVars, cbVars, repoVars,
                   gitVars, ctorVars, utilVars>>

\* the prompt is assembled on the no-index path as well
PromptAlwaysBound == FALSE

\* `prompt` is assigned only inside `if codebase_provider:`
PromptUnbound == ~rag

\* ErrorLocatorAgent.locate_error: without a provider `prompt` is unbound
\* and the call raises before any completion call
LocateError ==
    /\ pc = "Analyzed"
    /\ Invoke("ErrorLocator")
    /\ IF PromptUnbound
       THEN /\ Raise("UnboundLocalError")
            /\ UNCHANGED <<error_context, completions>>
       ELSE /\ completions' = completions + 1
            /\ \/ \E c \in ContextReplies :
                    /\ error_context' = <<c>>
                    /\ pc' = AfterLocate
                    /\ UNCHANGED <<result, raised>>
               \/ \E f \in StageFailures :
                    /\ Raise(f)
                    /\ UNCHANGED error_context
    /\ ProviderHandedOver
    /\ UNCHANGED <<callVars, analysis, solution, genVars, cbVars, repoVars,
                   gitVars, rag, repo_path, utilVars>>

\* SolutionArchitectAgent.propose_solution, then gate (2)
ProposeSolution ==
    /\ pc = "Localized"
    /\ Invoke("SolutionArchitect")
    /\ completions' = completions + 1
    /\ \/ \E fs \in AffectedLists :
            /\ solution' = <<Solution(fs)>>
            /\ IF NoFilesToChange(Solution(fs))
               THEN Return(EarlyExit)
               ELSE pc' = AfterPropose /\ UNCHANGED <<result, raised>>
       \/ \E f \in StageFailures :
            /\ Raise(f)
            /\ UNCHANGED solution
    /\ UNCHANGED <<callVars, analysis, error_context, genVars, cbVars,
                   repoVars, gitVars, ctorVars, utilVars>>

\* the analysis' own file list is fixed as well
FilesToFixWithAnalysis ==
    solution[1].affected_files \o analysis[1].affected_files

\* generate_fix: `for file_path in solution.affected_files`
FilesToFix == solution[1].affected_files

\* CodeGeneratorAgent.generate_fix is entered: fixed_files = {}
StartGenerate ==
    /\ pc = "Proposed"
    /\ Invoke("CodeGenerator")
    /\ pc' = "Generating"
    /\ gen_i' = 1
    /\ fixed_files' = <<>>
    /\ gen_calls' = <<>>
    /\ ProviderHandedOver
    /\ UNCHANGED <<callVars, stageVars, cbVars, repoVars, gitVars, rag,
                   repo_path, utilVars, result, raised, completions>>

\* generate_fix: one iteration of `for file_path in solution.affected_files`
GenerateFile ==
    /\ pc = "Generating"
    /\ gen_i <= Len(FilesToFix)
    /\ LET key == FilesToFix[gen_i]
       IN  IF OriginalContent(key) = NoText
           THEN \* content not found, skipping
                /\ gen_i' = gen_i + 1
                /\ UNCHANGED <<pc, fixed_files, gen_calls, completions,
                               result, raised>>
           ELSE /\ completions' = completions + 1
                /\ gen_calls' = Append(gen_calls,
                        [i |-> gen_i, key |-> key,
                         original |-> OriginalContent(key)])
                /\ \/ \E fixed \in Contents :
                        /\ fixed_files' = DictSet(fixed_files, key, fixed)
                        /\ gen_i' = gen_i + 1
                        /\ UNCHANGED <<pc, result, raised>>
                   \/ /\ Raise("transport_error")
                      /\ UNCHANGED <<gen_i, fixed_files>>
    /\ UNCHANGED <<callVars, stageVars, cbVars, repoVars, gitVars, ctorVars, utilVars,
                   invoked>>

\* generate_fix returns fixed_files
FinishGenerate ==
    /\ pc = "Generating"
    /\ gen_i > Len(FilesToFix)
    /\ pc' = "Generated"
    /\ cb_i' = 1
    /\ UNCHANGED <<callVars, stageVars, genVars, cb_log, repoVars, gitVars,
                   ctorVars, utilVars, result, raised, invoked, completions>>

\* the callback loop runs: `if save_changes_callback and self.codebase_provider`
CallbackLoopRuns == callback /\ rag

\* process_logs: one iteration of `for file_path in fixed_files.keys()`;
\* the observer is user code and may raise
NotifyObserver ==
    /\ pc = "Generated"
    /\ CallbackLoopRuns
    /\ cb_i <= Len(fixed_files)
    /\ LET key      == fixed_files[cb_i].k
           filename == Basename(key)
       IN  IF filename \in DOMAIN file_index
           THEN /\ cb_log' = Append(cb_log,
                       [filename |-> filename,
                        original |-> GetFileContent(wt, file_index[filename]),
                        fixed    |-> fixed_files[cb_i].c,
                        key      |-> key])
                /\ \/ cb_i' = cb_i + 1 /\ UNCHANGED <<pc, result, raised>>
                   \/ Raise("callback_error") /\ UNCHANGED cb_i
           ELSE /\ cb_i' = cb_i + 1
                /\ UNCHANGED <<pc, result, raised, cb_log>>
    /\ UNCHANGED <<callVars, stageVars, genVars, repoVars, gitVars, ctorVars, utilVars,
                   invoked, completions>>

\* create_fix_branch does not wait for the callback loop
CallbacksNotAwaited == TRUE

\* the callback loop is over (or never ran)
CallbacksDone == ~CallbackLoopRuns \/ cb_i > Len(fixed_files)


(***************************************************************************)
(* GitManagerAgent.create_fix_branch, one subprocess / file write a step.  *)
(* A subprocess the code runs with check=True, and the commit whose        *)
(* returncode it tests, may fail for reasons outside the model (a lock, a  *)
(* hook, a missing author identity, an invalid or taken ref name): `ok`.   *)
(***************************************************************************)
\* git checkout -b <branch_name> main: the branch starts from main
GitCheckoutNewFromMain(b) ==
    /\ branches' = branches \cup {b}
    /\ tree' = MapPut(tree, b, tree[MainBranch])
    /\ commits' = MapPut(commits, b, commits[MainBranch])
    /\ prev' = head
    /\ head' = b

\* git checkout -b <branch_name>: the new ref points at the current commit
GitCheckoutNew(b) ==
    /\ branches' = branches \cup {b}
    /\ tree' = MapPut(tree, b, tree[head])
    /\ commits' = MapPut(commits, b, commits[head])
    /\ prev' = head
    /\ head' = b

\* the switch back is lost: the fix branch stays checked out
GitCheckoutPreviousLost == UNCHANGED <<head, prev>>

\* git checkout - : back to the branch checked out before
GitCheckoutPrevious ==
    /\ head' = prev
    /\ prev' = head

\* git branch -D <branch_name>: git refuses to delete the checked-out branch
GitDeleteBranch(b) ==
    IF b # head'
    THEN /\ branches' = branches \ {b}
         /\ tree' = [x \in (DOMAIN tree) \ {b} |-> tree[x]]
         /\ commits' = [x \in (DOMAIN commits) \ {b} |-> commits[x]]
    ELSE UNCHANGED <<branches, tree, commits>>

\* the number of commits made in the clone so far
NumCommits ==
    Cardinality({i \in DOMAIN git_log :
                    git_log[i].op = "commit" /\ git_log[i].ok})

\* git status --porcelain prints nothing after git add -A: nothing is
\* staged and the working tree has nothing that is not staged
NothingStaged == index = tree[head] /\ wt = index

\* the except clause: GitOperation(branch_name=branch_name, "", [], False)
GitFailure(b) == GitOperation(b, <<>>, <<>>, FALSE)

\* one more entry of the log of repository operations
Ran(op, ok) == git_log' = Append(git_log, [op |-> op, ok |-> ok])

\* gate (3), else create_fix_branch is called and runs git checkout -b
CreateFixBranch ==
    /\ pc = "Generated"
    /\ CallbacksDone
    /\ IF NoFixedFiles(fixed_files)
       THEN /\ Return(EarlyExit)
            /\ UNCHANGED <<repoVars, gitVars, invoked>>
       ELSE /\ Invoke("GitManager")
            /\ \E now \in 1..MaxTime, ok \in BOOLEAN :
                 LET b == BranchNameOf(analysis[1].error_type, now)
                 IN  /\ branch_name' = b
                     /\ write_i' = 1
                     /\ IF ok /\ b \notin branches
                        THEN /\ GitCheckoutNew(b)
                             /\ Ran("checkout -b", TRUE)
                             /\ pc' = "GitWrite"
                             /\ UNCHANGED <<result, raised, index, wt>>
                        ELSE /\ Ran("checkout -b", FALSE)
                             /\ Return(GitFailure(b))
                             /\ UNCHANGED <<branches, head, prev, tree, commits,
                                            index, wt>>
    /\ ProviderHandedOver
    /\ UNCHANGED <<callVars, stageVars, genVars, cbVars, rag, repo_path,
                   utilVars, completions>>

\* one iteration of `for file_path, content in fixed_files.items()`:
\* os.makedirs and open(...).write raise OSError, which no clause catches
GitWriteFile ==
    /\ pc = "GitWrite"
    /\ write_i <= Len(fixed_files)
    /\ \/ /\ wt' = [wt EXCEPT ![TargetPath(fixed_files[write_i].k)] =
                                     fixed_files[write_i].c]
          /\ write_i' = write_i + 1
          /\ Ran("write", TRUE)
          /\ UNCHANGED <<pc, result, raised>>
       \/ /\ Raise("OSError")
          /\ Ran("write", FALSE)
          /\ UNCHANGED <<wt, write_i>>
    /\ UNCHANGED <<callVars, stageVars, genVars, cbVars, ctorVars, utilVars,
                   branches, head, prev, tree, commits, index, branch_name,
                   invoked, completions>>

\* git add -A (check=True)
GitAddAll ==
    /\ pc = "GitWrite"
    /\ write_i > Len(fixed_files)
    /\ \/ /\ index' = wt
          /\ Ran("add", TRUE)
          /\ pc' = "GitStaged"
          /\ UNCHANGED <<result, raised>>
       \/ /\ Ran("add", FALSE)
          /\ Return(GitFailure(branch_name))
          /\ UNCHANGED index
    /\ UNCHANGED <<callVars, stageVars, genVars, cbVars, ctorVars, utilVars,
                   branches, head, prev, tree, commits, wt, gitVars,
                   invoked, completions>>

\* nothing to commit: switch back, delete the branch, report failure
GitNoChanges ==
    /\ pc = "GitStaged"
    /\ NothingStaged
    /\ GitCheckoutPrevious
    /\ GitDeleteBranch(branch_name)
    /\ git_log' = git_log \o << [op |-> "checkout -", ok |-> TRUE],
                               [op |-> "branch -D",
                                ok |-> branch_name \notin branches'] >>
    /\ Return(GitOperation(<<>>, <<"No changes to commit">>, <<>>, FALSE))
    /\ UNCHANGED <<callVars, stageVars, genVars, cbVars, ctorVars, utilVars,
                   index, wt, gitVars, invoked, completions>>

\* git commit -m <message>: a non-zero returncode is re-raised as
\* CalledProcessError and caught by the except clause
GitCommit ==
    /\ pc = "GitStaged"
    /\ ~NothingStaged
    /\ \/ /\ index # tree[head]
          /\ tree' = [tree EXCEPT ![head] = index]
          /\ commits' = [commits EXCEPT ![head] = Append(@, NumCommits + 1)]
          /\ Ran("commit", TRUE)
          /\ Return(GitOperation(branch_name, CommitMessageOf(analysis[1]),
                                 DictKeys(fixed_files), TRUE))
       \/ /\ Ran("commit", FALSE)
          /\ Return(GitFailure(branch_name))
          /\ UNCHANGED <<tree, commits>>
    /\ UNCHANGED <<callVars, stageVars, genVars, cbVars, ctorVars, utilVars,
                   branches, head, prev, index, wt, gitVars,
                   invoked, completions>>


\* Orchestrator.__init__ has run: the agents exist, the index is built
\* no RateLimiter has been constructed
RlIdle == [max_calls |-> 0, period_seconds |-> 0, now |-> 0,
           calls |-> EmptyMap, history |-> <<>>, wait |-> <<>>]

\* CircuitBreaker.__init__ : closed, no failure seen
CbNew(failure_threshold, recovery_timeout) ==
    [failure_threshold |-> failure_threshold,
     recovery_timeout |-> recovery_timeout,
     failure_count |-> 0, last_failure_time |-> <<>>, state |-> "closed",
     now |-> 0, history |-> <<>>]

\* SimpleCache.__init__ : an empty dict
CacheNew(ttl_seconds) ==
    [ttl_seconds |-> ttl_seconds, cache |-> EmptyMap, now |-> 0,
     sets |-> EmptyMap, got |-> <<>>]

\* no wrapped function has been called
RtIdle == [max_attempts |-> 0, outcomes |-> <<>>, attempt |-> 0,
           sleeps |-> 0, last_exception |-> <<>>,
           returned |-> <<>>, raised |-> <<>>, pc |-> "idle"]

\* no CircuitBreaker, SimpleCache or wrapped function is in use
ToolsIdle ==
    /\ breaker = CbNew(0, 0)
    /\ cache = CacheNew(0)
    /\ rt = RtIdle

Init ==
    /\ pc = "Idle"
    /\ rag \in BOOLEAN
    /\ \E t \in InitialTrees :
         /\ tree = [b \in {MainBranch} |-> t]
         /\ commits = NoCommits
         /\ index = t
         /\ wt \in WorkingTreesOf(t)
    /\ branches = {MainBranch}
    /\ head = MainBranch
    /\ prev = MainBranch
    /\ git_log = <<>>
    /\ repo_path = RepoRoot
    /\ IF rag
       THEN \E o \in ScanOrders(FilesIn(wt)) :
                /\ file_index = BuildFileIndex(o)
                /\ class_index = BuildClassIndex(o, wt)
                /\ last_scanned = LastScanned(o)
       ELSE file_index = EmptyMap /\ class_index = EmptyMap
            /\ last_scanned = EmptyMap
    /\ logs = <<>>
    /\ file_contents = EmptyMap
    /\ callback = FALSE
    /\ analysis = <<>>
    /\ error_context = <<>>
    /\ solution = <<>>
    /\ gen_i = 1
    /\ fixed_files = <<>>
    /\ gen_calls = <<>>
    /\ cb_i = 1
    /\ cb_log = <<>>
    /\ branch_name = <<>>
    /\ write_i = 1
    /\ result = <<>>
    /\ raised = ""
    /\ invoked = [a \in Agents |-> 0]
    /\ completions = 0
    /\ rl = RlIdle
    /\ ToolsIdle
    /\ query = <<>>
    /\ relevant_files = <<>>
    /\ reply = <<>>
    /\ parsed = <<>>
    /\ other = <<>>

Next ==
    \/ ProcessLogs
    \/ LocateError
    \/ ProposeSolution
    \/ StartGenerate
    \/ GenerateFile
    \/ FinishGenerate
    \/ NotifyObserver
    \/ CreateFixBranch
    \/ GitWriteFile
    \/ GitAddAll
    \/ GitNoChanges
    \/ GitCommit

Spec == Init /\ [][Next]_vars

(***************************************************************************)
(* Properties.                                                             *)
(***************************************************************************)
Terminated == pc \in {"Returned", "Raised"}

\* the three fields every early exit carries
IsFailureWithoutBranch(r) ==
    /\ r.success = FALSE
    /\ r.branch_name = <<>>
    /\ r.files_changed = <<>>

\* C1: once process_logs has been called with an empty log batch it has
\* returned success=false, branch_name="", files_changed=[], no stage agent
\* was invoked and no completion call was made.
C1_EmptyBatchAborts ==
    (pc # "Idle" /\ logs = <<>>) =>
        /\ pc = "Returned"
        /\ result # <<>>
        /\ IsFailureWithoutBranch(result[1])
        /\ \A a \in Agents : invoked[a] = 0
        /\ completions = 0

C1_Witness == pc = "Returned" /\ logs = <<>> /\ result # <<>>

\* C2: once SolutionArchitect has returned a Solution with empty
\* affected_files, process_logs has returned success=false, branch_name="",
\* files_changed=[]; CodeGenerator and GitManager were not invoked and no
\* git command or file write was run.
C2_EmptySolutionAborts ==
    (solution # <<>> /\ solution[1].affected_files = <<>>) =>
        /\ pc = "Returned"
        /\ result # <<>>
        /\ IsFailureWithoutBranch(result[1])
        /\ invoked["CodeGenerator"] = 0
        /\ invoked["GitManager"] = 0
        /\ git_log = <<>>
        /\ branches = {MainBranch}
        /\ head = MainBranch

C2_Witness ==
    /\ pc = "Returned"
    /\ solution # <<>>
    /\ solution[1].affected_files = <<>>
    /\ invoked["SolutionArchitect"] = 1

\* generate_fix has returned
GenerateReturned ==
    /\ invoked["CodeGenerator"] = 1
    /\ pc \notin {"Proposed", "Generating"}
    /\ ~(pc = "Raised" /\ gen_i <= Len(solution[1].affected_files))

\* C3: once CodeGenerator has returned an empty FixedFiles, the run is not
\* aborted by an exception, GitManager is never invoked, no git command or
\* file write is run, and the result, once returned, is success=false,
\* branch_name="", files_changed=[].
C3_EmptyFixedFilesAborts ==
    (GenerateReturned /\ fixed_files = <<>>) =>
        /\ pc \in {"Generated", "Returned"}
        /\ invoked["GitManager"] = 0
        /\ git_log = <<>>
        /\ branches = {MainBranch}
        /\ head = MainBranch
        /\ (pc = "Returned" =>
              result # <<>> /\ IsFailureWithoutBranch(result[1]))

C3_Witness ==
    /\ pc = "Returned"
    /\ invoked["CodeGenerator"] = 1
    /\ fixed_files = <<>>
    /\ solution[1].affected_files # <<>>

\* position of a control point in Idle -> Analyzed -> Localized -> Proposed
\* -> Generated -> Committed
StageRank(p) ==
    CASE p = "Idle"       -> 0
      [] p = "Analyzed"   -> 1
      [] p = "Localized"  -> 2
      [] p = "Proposed"   -> 3
      [] p = "Generating" -> 3
      [] p = "Generated"  -> 4
      [] p = "GitWrite"   -> 5
      [] p = "GitStaged"  -> 5
      [] OTHER            -> 6

\* every agent at most once, none before its predecessor returned its output
StageOrderInv ==
    /\ \A a \in Agents : invoked[a] <= 1
    /\ invoked["ErrorLocator"] <= invoked["LogAnalyzer"]
    /\ invoked["SolutionArchitect"] <= invoked["ErrorLocator"]
    /\ invoked["CodeGenerator"] <= invoked["SolutionArchitect"]
    /\ invoked["GitManager"] <= invoked["CodeGenerator"]
    /\ (invoked["ErrorLocator"] = 1 => analysis # <<>>)
    /\ (invoked["SolutionArchitect"] = 1 => error_context # <<>>)
    /\ (invoked["CodeGenerator"] = 1 => solution # <<>>)
    /\ (invoked["GitManager"] = 1 =>
          gen_i > Len(solution[1].affected_files))

\* a step never goes back, and goes forward one stage at a time unless the
\* run ends
StageOrderStep ==
    /\ StageRank(pc') >= StageRank(pc)
    /\ (pc' \notin {"Returned", "Raised"} => StageRank(pc') <= StageRank(pc) + 1)
    /\ (pc \in {"Returned", "Raised"} => pc' = pc)

\* C4: within one run the stages occur only in the order Idle -> Analyzed ->
\* Localized -> Proposed -> Generated -> Committed; each agent is invoked at
\* most once, only after its predecessor returned its output, none is
\* skipped and none is revisited.
C4_StrictStageOrder == []StageOrderInv /\ [][StageOrderStep]_vars

C4_Witness ==
    /\ pc = "Returned"
    /\ \A a \in Agents : invoked[a] = 1
    /\ result # <<>>
    /\ result[1].success

\* some step of create_fix_branch failed, or there was nothing to commit
GitStepFailed ==
    \E i \in 1..Len(git_log) :
        \/ ~git_log[i].ok
        \/ git_log[i].op = "checkout -"

\* C5: whenever branch creation, the write of a fixed file, staging or the
\* commit fails, or there is nothing to commit, create_fix_branch returns a
\* GitOperation with success=false: the caller is never left without a
\* result.
C5_GitFailureYieldsFailureResult ==
    (invoked["GitManager"] = 1 /\ GitStepFailed) =>
        /\ pc = "Returned"
        /\ result # <<>>
        /\ result[1].success = FALSE

\* C6: when nothing is staged after the writes and git add -A, the next step
\* checks out the branch the run started on, deletes the fix branch and
\* returns success=false, branch_name="", files_changed=[].
C6_NoDiffRestoresBranch ==
    [][ (pc = "GitStaged" /\ index = tree[head]) =>
            /\ pc' = "Returned"
            /\ head' = MainBranch
            /\ branch_name \notin branches'
            /\ branches' = {MainBranch}
            /\ result' # <<>>
            /\ IsFailureWithoutBranch(result'[1]) ]_vars

C6_Witness ==
    /\ pc = "Returned"
    /\ Len(git_log) >= 4
    /\ git_log[Len(git_log)].op = "branch -D"
    /\ \E i \in 1..Len(git_log) : git_log[i].op = "write" /\ git_log[i].ok
    /\ head = MainBranch

\* C7: whenever create_fix_branch returns success=true, the fix branch
\* fix/<slug(error_type)>-<timestamp> exists and is checked out, and its
\* commit holds, for every entry of FixedFiles, that entry's content at the
\* path the entry resolves to.
C7_SuccessCommitsEveryFixedFile ==
    (result # <<>> /\ result[1].success) =>
        /\ \E now \in 1..MaxTime :
               result[1].branch_name = BranchNameOf(analysis[1].error_type, now)
        /\ result[1].branch_name \in branches
        /\ head = result[1].branch_name
        /\ \A i \in 1..Len(fixed_files) :
               tree[head][TargetPath(fixed_files[i].k)] = fixed_files[i].c

\* C8: when the commit fails after the fix branch was created, the branch is
\* gone and the previous branch is checked out again by the time the failure
\* reaches the caller.
C8_CommitFailureRemovesBranch ==
    (Terminated /\ \E i \in 1..Len(git_log) :
                       git_log[i].op = "commit" /\ ~git_log[i].ok) =>
        /\ branch_name \notin branches
        /\ head = MainBranch

\* C9: when a callback is supplied, once the callback loop is over the
\* callback has been invoked exactly once for every entry of FixedFiles, with
\* its filename and fixed content, and for nothing else.
C9_CallbackOncePerFixedFile ==
    (callback /\ invoked["CodeGenerator"] = 1
              /\ pc \in {"GitWrite", "GitStaged", "Returned"}) =>
        /\ \A i \in 1..Len(fixed_files) :
               Cardinality({ j \in 1..Len(cb_log) :
                               cb_log[j].key = fixed_files[i].k }) = 1
        /\ \A j \in 1..Len(cb_log) :
               \E i \in 1..Len(fixed_files) :
                   /\ cb_log[j].key = fixed_files[i].k
                   /\ cb_log[j].filename = Basename(fixed_files[i].k)
                   /\ cb_log[j].fixed = fixed_files[i].c

\* C10: an exception of the observer callback never leaves process_logs.
C10_CallbackFailureNeverAborts ==
    ~(pc = "Raised" /\ raised = "callback_error")

\* the elements of a list
Range(f) == { f[i] : i \in DOMAIN f }

\* C11: Solution.affected_files alone drives code generation: every
\* completion call of CodeGenerator is made for an entry of
\* Solution.affected_files, no entry gets more than one call, and the keys of
\* FixedFiles are all listed in Solution.affected_files; without a Solution
\* there is no call and no fixed file.
C11_SolutionFilesSoleDriver ==
    LET listed == IF solution = <<>> THEN <<>>
                  ELSE solution[1].affected_files
    IN  /\ \A j \in 1..Len(gen_calls) :
               /\ gen_calls[j].i \in 1..Len(listed)
               /\ gen_calls[j].key = listed[gen_calls[j].i]
        /\ \A j, k \in 1..Len(gen_calls) :
               gen_calls[j].i = gen_calls[k].i => j = k
        /\ Range(DictKeys(fixed_files)) \subseteq Range(listed)

\* generation is over, it made a call and fixed a file, and LogAnalysis
\* lists a file the Solution does not
C11_Witness ==
    /\ pc = "Generated"
    /\ gen_calls # <<>>
    /\ fixed_files # <<>>
    /\ \E f \in Range(analysis[1].affected_files) :
           f \notin Range(solution[1].affected_files)

(***************************************************************************)
(* CodeGeneratorAgent.generate_fix on its own: the specification SpecGen    *)
(* starts where process_logs calls it, with every shape of its arguments:  *)
(* preloaded texts that may be empty, an index whose files may be empty or *)
(* may have vanished since the scan, or no index at all.                   *)
(***************************************************************************)
\* file_contents: any of two files preloaded, each with a text or with ""
GenPreloaded ==
    UNION { [S -> {"v1", NoText}] :
              S \in SUBSET { <<"G.java">>, <<"a", "F.java">> } }

\* the trees the index may have been built on: files may be empty
GenTrees == [FullPaths -> {"v0", NoText, NoFile}]

\* the tree at generation time: as scanned, or with one file gone since
GenTreesAfter(t) ==
    {t} \cup { [t EXCEPT ![p] = NoFile] : p \in FullPaths }

InitGen ==
    /\ pc = "Proposed"
    /\ rag \in BOOLEAN
    /\ \E t \in GenTrees :
         /\ tree = [b \in {MainBranch} |-> t]
         /\ commits = NoCommits
         /\ index = t
         /\ wt \in GenTreesAfter(t)
         /\ IF rag
            THEN \E o \in ScanOrders(FilesIn(t)) :
                     /\ file_index = BuildFileIndex(o)
                     /\ class_index = BuildClassIndex(o, t)
                     /\ last_scanned = LastScanned(o)
            ELSE file_index = EmptyMap /\ class_index = EmptyMap
                 /\ last_scanned = EmptyMap
    /\ repo_path = RepoRoot
    /\ branches = {MainBranch}
    /\ head = MainBranch
    /\ prev = MainBranch
    /\ git_log = <<>>
    /\ logs = <<"log">>
    /\ file_contents \in GenPreloaded
    /\ callback = FALSE
    /\ analysis = << LogAnalysis(<<"N", "P">>, << <<"G.java">> >>) >>
    /\ error_context = << ErrorContext("Unknown") >>
    /\ \E files \in AffectedLists :
         /\ ~NoFilesToChange(Solution(files))
         /\ solution = << Solution(files) >>
    /\ gen_i = 1
    /\ fixed_files = <<>>
    /\ gen_calls = <<>>
    /\ cb_i = 1
    /\ cb_log = <<>>
    /\ branch_name = <<>>
    /\ write_i = 1
    /\ result = <<>>
    /\ raised = ""
    /\ invoked = [a \in Agents |->
                    IF a \in {"LogAnalyzer", "ErrorLocator",
                               "SolutionArchitect"} THEN 1 ELSE 0]
    /\ completions = 3
    /\ rl = RlIdle
    /\ ToolsIdle
    /\ query = <<>>
    /\ relevant_files = <<>>
    /\ reply = <<>>
    /\ parsed = <<>>
    /\ other = <<>>

NextGen ==
    \/ StartGenerate
    \/ GenerateFile
    \/ FinishGenerate

SpecGen == InitGen /\ [][NextGen]_vars

\* C12: every entry of Solution.affected_files that generate_fix is done
\* with got its original content from the preloaded map when the map has
\* the file, else from the index by base filename when an index is supplied
\* and has it; with neither, no completion call was made for the entry and
\* the file is not in FixedFiles.
C12_ContentSourceOrder ==
    (pc \in {"Generating", "Generated"}) =>
        \A i \in 1..(gen_i - 1) :
            LET key   == solution[1].affected_files[i]
                src   == IF key \in DOMAIN file_contents
                         THEN << file_contents[key] >>
                         ELSE IF rag /\ Basename(key) \in DOMAIN file_index
                              THEN << GetFileContent(wt,
                                         file_index[Basename(key)]) >>
                              ELSE <<>>
                calls == { j \in 1..Len(gen_calls) : gen_calls[j].i = i }
            IN  IF src = <<>>
                THEN /\ calls = {}
                     /\ key \notin Range(DictKeys(fixed_files))
                ELSE /\ \E j \in calls : gen_calls[j].original = src[1]
                     /\ key \in Range(DictKeys(fixed_files))

\* the order in which process_logs calls the stage agents
PipelineOrder == << "LogAnalyzer", "ErrorLocator", "SolutionArchitect",
                    "CodeGenerator", "GitManager" >>

\* a stage failed: the exception is out of process_logs, there is no result
\* object, and only the stages up to the failing one were ever invoked
StageFailurePropagated ==
    (raised \in StageFailures) =>
        /\ pc = "Raised"
        /\ result = <<>>
        /\ invoked["GitManager"] = 0
        /\ git_log = <<>>
        /\ cb_log = <<>>
        /\ \A i, j \in 1..Len(PipelineOrder) :
               (i < j /\ invoked[PipelineOrder[j]] > 0) =>
                   invoked[PipelineOrder[i]] = 1

\* C18: a transport error or contract violation raised inside a stage is
\* not caught by the Orchestrator: process_logs ends with the exception and
\* without a result object, and once it has ended that way nothing further
\* happens, so no later stage is invoked.
C18_StageFailurePropagates ==
    /\ []StageFailurePropagated
    /\ [][~(pc = "Raised" /\ raised \in StageFailures)]_vars

\* the architect's reply broke the contract after two stages had succeeded
C18_Witness ==
    /\ pc = "Raised"
    /\ raised = "contract_violation"
    /\ invoked["SolutionArchitect"] = 1
    /\ error_context # <<>>

(***************************************************************************)
(* CodebaseProvider construction on its own: the specification SpecIndex   *)
(* builds the index once over a tree that has files in deny-listed         *)
(* directories, files without an allow-listed extension and files whose    *)
(* read raises, under a root that may itself lie below a directory with a  *)
(* deny-listed name.                                                       *)
(***************************************************************************)
\* the roots a provider may be constructed on
Roots == { RepoRoot, <<"lib">> \o RepoRoot }

\* the files that may exist below the root
IndexKeys == { <<"a", "F.java">>, <<"b", "F.java">>, <<"build", "G.java">>,
               <<"notes.txt">> }

\* the trees below a root
IndexTrees(root) ==
    [ { PathJoin(root, k) : k \in IndexKeys } ->
          {"c0", "c1", NoFile, Unreadable} ]

\* no process_logs call is under way
RunIdle ==
    /\ logs = <<>>
    /\ file_contents = EmptyMap
    /\ callback = FALSE
    /\ analysis = <<>>
    /\ error_context = <<>>
    /\ solution = <<>>
    /\ gen_i = 1
    /\ fixed_files = <<>>
    /\ gen_calls = <<>>
    /\ cb_i = 1
    /\ cb_log = <<>>
    /\ branch_name = <<>>
    /\ write_i = 1
    /\ result = <<>>
    /\ raised = ""
    /\ invoked = [a \in Agents |-> 0]
    /\ completions = 0

\* a clone with the single branch main, its working tree being w
CloneOf(w) ==
    /\ tree = [b \in {MainBranch} |-> w]
    /\ commits = NoCommits
    /\ index = w
    /\ wt = w
    /\ branches = {MainBranch}
    /\ head = MainBranch
    /\ prev = MainBranch
    /\ git_log = <<>>

\* CodebaseProvider.__init__ up to the call of _build_index
InitIndex ==
    /\ pc = "Constructing"
    /\ rag = TRUE
    /\ repo_path \in Roots
    /\ \E w \in IndexTrees(repo_path) : CloneOf(w)
    /\ file_index = EmptyMap
    /\ class_index = EmptyMap
    /\ last_scanned = EmptyMap
    /\ RunIdle
    /\ rl = RlIdle
    /\ ToolsIdle
    /\ query = <<>>
    /\ relevant_files = <<>>
    /\ reply = <<>>
    /\ parsed = <<>>
    /\ other = <<>>

\* CodebaseProvider._build_index: rglob yields the files in some order
BuildIndex ==
    /\ pc = "Constructing"
    /\ pc' = "Indexed"
    /\ \E o \in ScanOrders(FilesIn(wt)) :
         /\ file_index' = BuildFileIndex(o)
         /\ class_index' = BuildClassIndex(o, wt)
         /\ last_scanned' = LastScanned(o)
    /\ UNCHANGED <<callVars, stageVars, genVars, cbVars, repoVars, gitVars,
                   rag, repo_path, utilVars, result, raised, invoked,
                   completions>>

NextIndex == BuildIndex

SpecIndex == InitIndex /\ [][NextIndex]_vars

\* the part of a path below the root
BelowRoot(p) == SubSeq(p, Len(repo_path) + 1, Len(p))

\* C14: after the index build every file under the root with an
\* allow-listed extension and no deny-listed directory on its way from the
\* root is registered: its filename is a key of file_index, and every class
\* or interface name its text declares is a key of class_index whose list
\* contains the file's path.
C14_EveryEligibleFileRegistered ==
    (pc = "Indexed") =>
        \A p \in FilesIn(wt) :
            LET below == BelowRoot(p)
                words == WordsOf(wt[p])
            IN  (/\ Suffix(Basename(p)) \in FileExtensions
                 /\ \A i \in 1..(Len(below) - 1) :
                        below[i] \notin ExcludedDirs
                 /\ wt[p] # Unreadable) =>
                    /\ Basename(p) \in DOMAIN file_index
                    /\ \A i \in 1..(Len(words) - 1) :
                           (words[i] \in {"class", "interface"}) =>
                               /\ words[i + 1] \in DOMAIN class_index
                               /\ p \in Range(class_index[words[i + 1]])

(***************************************************************************)
(* CodebaseProvider.find_relevant_files on its own: the specification      *)
(* SpecQuery builds an index and puts one query to it.                     *)
(***************************************************************************)
MaxFrames == 2
MaxWords  == 2
MaxReturn == 2

\* _read_file_excerpt: context_lines, and the length of the default excerpt
ContextLines == 10
HeadLines    == 20

\* find_relevant_files: class_index[word][:2]
ClassPathLimit == 2

\* len(f.readlines()) of the texts of the universe
NumLines(text) ==
    CASE text = "c0" -> 3
      [] text = "c1" -> 25
      [] text = "v0" -> 1
      [] text = "v1" -> 1
      [] OTHER -> 0

\* a line number as the pattern group (\d+) captures it: its value, and
\* whether it has more digits than an interpreter with an int conversion
\* limit accepts
LineText(n, long) == [n |-> n, overlong |-> long]

\* the entry field 'line' of a class match: '?'
UnknownLine == LineText(-1, FALSE)

\* one frame of a stack trace: which of the four patterns it matches, the
\* file as written, and the line number as written
Frame(style, file, line) == [style |-> style, file |-> file, line |-> line]

QueryFrames ==
    { Frame("java",   <<"F.java">>,      LineText(12, FALSE)),
      Frame("python", <<"x", "G.java">>, LineText(30, FALSE)),
      Frame("js",     <<"F.java">>,      LineText(0, FALSE)),
      Frame("cs",     <<"Z.cs">>,        LineText(1, FALSE)),
      Frame("js",     <<"G.java">>,      LineText(2, FALSE)),
      Frame("java",   <<"G.java">>,      LineText(0, TRUE)) }

StackTraces == UNION { [1..n -> QueryFrames] : n \in 0..MaxFrames }

\* the words of an error message
ErrorMessages == UNION { [1..n -> {"Foo", "Bar", "null"}] : n \in 0..MaxWords }

\* find_relevant_files: the default of max_files
DefaultMaxFiles == 10

\* the values of max_files
MaxFilesArgs == (-1)..MaxReturn \cup {DefaultMaxFiles}

\* file_patterns, in their order
FilePatterns == << "java", "python", "js", "cs" >>

RECURSIVE SelectStyle(_, _)
SelectStyle(st, style) ==
    IF st = <<>> THEN <<>>
    ELSE (IF st[1].style = style THEN << st[1] >> ELSE <<>>)
             \o SelectStyle(Tail(st), style)

\* the frames are visited in the order of the text, whatever their pattern
StackMatchesInTextOrder(st) == st

\* `for pattern in file_patterns: for match in re.findall(...)`: the
\* matches in the order the two loops visit them
StackMatches(st) ==
    SelectStyle(st, FilePatterns[1]) \o SelectStyle(st, FilePatterns[2])
        \o SelectStyle(st, FilePatterns[3]) \o SelectStyle(st, FilePatterns[4])

Min(a, b) == IF a < b THEN a ELSE b
Max(a, b) == IF a > b THEN a ELSE b

\* the slice lines[start:end] is read as if `start` were a line number, and
\* the line 0 is taken for a line of the file
ReadFileExcerptFromStart(w, p, line) ==
    IF p \notin DOMAIN w \/ w[p] \in {NoFile, Unreadable}
    THEN [kind |-> "error", from |-> 0, to |-> 0]
    ELSE LET len == NumLines(w[p])
         IN  IF line # <<>> /\ line[1] <= len
             THEN [kind |-> "lines",
                   from |-> Max(0, line[1] - ContextLines - 1),
                   to   |-> Min(len, line[1] + ContextLines)]
             ELSE [kind |-> "head", from |-> 1, to |-> Min(HeadLines, len)]

\* _read_file_excerpt(file_path, line_number): the lines the excerpt
\* holds, or the read error; line is <<>> for None
ReadFileExcerpt(w, p, line) ==
    IF p \notin DOMAIN w \/ w[p] \in {NoFile, Unreadable}
    THEN [kind |-> "error", from |-> 0, to |-> 0]
    ELSE LET len == NumLines(w[p])
         IN  IF line # <<>> /\ line[1] # 0 /\ 0 < line[1] /\ line[1] <= len
             THEN [kind |-> "lines",
                   from |-> Max(0, line[1] - ContextLines - 1) + 1,
                   to   |-> Min(len, line[1] + ContextLines)]
             ELSE [kind |-> "head", from |-> 1, to |-> Min(HeadLines, len)]

\* one entry of relevant_files
Entry(path, filename, line, content, relevance) ==
    [path |-> path, filename |-> filename, line |-> line,
     content |-> content, relevance |-> relevance]

\* the loop over the stack-trace matches; int(line_number) raises on an
\* overlong number when the interpreter limits the conversion
RECURSIVE AddStackMatches(_, _, _)
AddStackMatches(acc, ms, limited) ==
    IF ms = <<>> \/ acc.raised THEN acc
    ELSE LET m        == ms[1]
             filename == Basename(m.file)
         IN  IF /\ filename \in DOMAIN file_index
                /\ file_index[filename] \notin acc.seen_paths
             THEN IF m.line.overlong /\ limited
                  THEN [acc EXCEPT !.raised = TRUE]
                  ELSE LET fp == file_index[filename]
                       IN  AddStackMatches(
                             [raised |-> FALSE,
                              files  |-> Append(acc.files,
                                  Entry(fp, filename, m.line,
                                        ReadFileExcerpt(wt, fp, <<m.line.n>>),
                                        "stack_trace")),
                              seen_paths |-> acc.seen_paths \cup {fp}],
                             Tail(ms), limited)
             ELSE AddStackMatches(acc, Tail(ms), limited)

\* re.findall(r'\b[A-Z][a-zA-Z0-9]*\b', error_message)
CapitalizedWords(em) == SelectSeq(em, LAMBDA x : x \in {"Foo", "Bar"})

\* list[:n]
Slice(list, n) ==
    IF n >= 0 THEN SubSeq(list, 1, Min(n, Len(list)))
    ELSE SubSeq(list, 1, Max(0, Len(list) + n))

\* the loop over class_index[word][:2]
RECURSIVE AddClassPaths(_, _)
AddClassPaths(acc, paths) ==
    IF paths = <<>> THEN acc
    ELSE LET fp == paths[1]
         IN  IF fp \notin acc.seen_paths
             THEN AddClassPaths(
                    [acc EXCEPT
                       !.files = Append(@,
                           Entry(fp, Basename(fp), UnknownLine,
                                 ReadFileExcerpt(wt, fp, <<>>),
                                 "class_match")),
                       !.seen_paths = @ \cup {fp}],
                    Tail(paths))
             ELSE AddClassPaths(acc, Tail(paths))

\* every path of the class is considered
AllPaths(paths) == paths

\* class_index[word][:2]
FirstPaths(paths) == Slice(paths, ClassPathLimit)

\* the loop over the capitalized words of the error message
RECURSIVE AddClassMatches(_, _)
AddClassMatches(acc, words) ==
    IF words = <<>> \/ acc.raised THEN acc
    ELSE AddClassMatches(
           IF words[1] \in DOMAIN class_index
           THEN AddClassPaths(acc, FirstPaths(class_index[words[1]]))
           ELSE acc,
           Tail(words))

\* the whole list returned, without the cut
ReturnUncut(list, n) == list

\* `return relevant_files[:max_files]`
ReturnCut(list, n) == Slice(list, n)

\* find_relevant_files up to its return statement
Collect(st, em, limited) ==
    AddClassMatches(
        AddStackMatches([raised |-> FALSE, files |-> <<>>, seen_paths |-> {}],
                        StackMatches(st), limited),
        CapitalizedWords(em))

\* the trees a queried index is built on
QueryTrees ==
    { t \in [FullPaths -> {"c0", "c1", NoFile, Unreadable}] :
        /\ t[PathJoin(RepoRoot, <<"a", "F.java">>)] \in {"c0", Unreadable}
        /\ t[PathJoin(RepoRoot, <<"b", "F.java">>)] \in {"c1", NoFile}
        /\ t[PathJoin(RepoRoot, <<"G.java">>)] \in {"c0", NoFile} }

\* a provider has been constructed
InitQuery ==
    /\ pc = "Indexed"
    /\ rag = TRUE
    /\ repo_path = RepoRoot
    /\ \E w \in QueryTrees :
         /\ CloneOf(w)
         /\ \E o \in ScanOrders(FilesIn(w)) :
              /\ file_index = BuildFileIndex(o)
              /\ class_index = BuildClassIndex(o, w)
              /\ last_scanned = LastScanned(o)
    /\ RunIdle
    /\ rl = RlIdle
    /\ ToolsIdle
    /\ query = <<>>
    /\ relevant_files = <<>>
    /\ reply = <<>>
    /\ parsed = <<>>
    /\ other = <<>>

\* CodebaseProvider.find_relevant_files(stack_trace, error_message,
\* max_files)
FindRelevantFiles ==
    /\ pc = "Indexed"
    /\ \E st \in StackTraces, em \in ErrorMessages, mf \in MaxFilesArgs,
          limited \in BOOLEAN :
         LET r == Collect(st, em, limited)
         IN  /\ query' = << [stack_trace |-> st, error_message |-> em,
                             max_files |-> mf] >>
             /\ IF r.raised
                THEN Raise("ValueError") /\ UNCHANGED relevant_files
                ELSE /\ pc' = "Queried"
                     /\ relevant_files' = ReturnCut(r.files, mf)
                     /\ UNCHANGED <<result, raised>>
    /\ UNCHANGED <<callVars, stageVars, genVars, cbVars, repoVars, gitVars,
                   ctorVars, rl, toolVars, other, reply, parsed, invoked,
                   completions>>

NextQuery == FindRelevantFiles

SpecQuery == InitQuery /\ [][NextQuery]_vars

\* C13: a find_relevant_files call with max_files >= 0 returns at most
\* max_files entries, and no two of them have the same path.
C13_AtMostMaxFilesNoDuplicates ==
    (pc = "Queried" /\ query[1].max_files >= 0) =>
        /\ Len(relevant_files) <= query[1].max_files
        /\ \A i, j \in 1..Len(relevant_files) :
               relevant_files[i].path = relevant_files[j].path => i = j

\* the list was cut to max_files = 1 although the trace named a file and
\* the message a class of another file, and the trace named one file twice
C13_Witness ==
    /\ pc = "Queried"
    /\ query[1].max_files = 1
    /\ Len(relevant_files) = 1
    /\ Len(query[1].stack_trace) = 2
    /\ Basename(query[1].stack_trace[1].file)
           = Basename(query[1].stack_trace[2].file)
    /\ relevant_files[1].relevance = "stack_trace"
    /\ \E c \in Range(query[1].error_message) :
           /\ c \in DOMAIN class_index
           /\ \E fp \in Range(class_index[c]) :
                  fp # relevant_files[1].path

\* C15: a find_relevant_files call never raises: it returns, and every
\* returned entry whose file cannot be read carries the read error as its
\* excerpt.
C15_QueryNeverRaises ==
    (query # <<>>) =>
        /\ pc = "Queried"
        /\ \A i \in 1..Len(relevant_files) :
               (wt[relevant_files[i].path] \in {NoFile, Unreadable}) =>
                   relevant_files[i].content.kind = "error"

\* C19: the index is built at construction and never again: no step of a
\* run, whichever stage or callback takes it, changes file_index or
\* class_index.
C19_IndexReadOnlyAfterConstruction ==
    [][UNCHANGED <<file_index, class_index>>]_vars

\* a run went through all three stages that use the index and committed,
\* so that the working tree is no longer the tree the index was built on
C19_Witness ==
    /\ pc = "Returned"
    /\ result[1].success
    /\ file_index # EmptyMap
    /\ class_index # EmptyMap
    /\ invoked["ErrorLocator"] = 1
    /\ invoked["CodeGenerator"] = 1
    /\ invoked["GitManager"] = 1
    /\ \E p \in FilesIn(wt) :
           /\ Basename(p) \in DOMAIN file_index
           /\ \A o \in ScanOrders(FilesIn(wt)) :
                  BuildClassIndex(o, wt) # class_index

(***************************************************************************)
(* The reply parsing of analyze_logs, locate_error and propose_solution on *)
(* its own: the specification SpecParse hands one reply text to one stage. *)
(* A text is a sequence of tokens: the fence of three backticks, a word, a *)
(* newline, or a complete JSON text standing for the value it denotes.     *)
(***************************************************************************)
MaxArrayLen == 2

\* the stages that parse a JSON reply
ParsingStages == { "LogAnalyzer", "ErrorLocator", "SolutionArchitect" }

\* JSON values: a scalar, a mapping with its members, an array with its
\* elements
JNone       == [kind |-> "none",    items |-> <<>>, fields |-> EmptyMap]
JScalar     == [kind |-> "scalar",  items |-> <<>>, fields |-> EmptyMap]
JMapping(f) == [kind |-> "mapping", items |-> <<>>, fields |-> f]
JArray(xs)  == [kind |-> "array",   items |-> xs,   fields |-> EmptyMap]

\* the members a reply mapping may have, values named by their JSON text
ReplyMappings ==
    { EmptyMap,
      ("error_type" :> "NPE" @@ "affected_files" :> "[G.java]"),
      ("error_location" :> "F.java:45"),
      ("description" :> "d" @@ "affected_files" :> "[G.java]"
          @@ "severity" :> "high") }

\* values without an array in them, arrays of those, and arrays of at most
\* one element that may itself be an array
JsonFlat   == {JScalar} \cup { JMapping(f) : f \in ReplyMappings }
JsonArrays == { JArray(xs) :
                  xs \in UNION { [1..n -> JsonFlat] : n \in 0..MaxArrayLen } }
JsonNested == { JArray(<<x>>) : x \in JsonArrays }
JsonValues == JsonFlat \cup JsonArrays \cup JsonNested

\* tokens of a reply text
Fence       == [t |-> "fence",   v |-> JNone]
Newline     == [t |-> "newline", v |-> JNone]
Word(w)     == [t |-> w,       v |-> JNone]
JsonText(x) == [t |-> "value", v |-> x]

\* what a reply may open with, and close with
Openings == { <<>>, <<Fence>>, <<Fence, Newline>>, <<Fence, Word("json")>>,
              <<Fence, Word("json"), Newline>>,
              <<Fence, Word("javascript"), Newline>> }
Closings == { <<>>, <<Fence>>, <<Newline, Fence>> }

\* what stands between: a JSON text, or prose that is none
Bodies == { JsonText(x) : x \in JsonValues } \cup { Word("Sorry") }

\* the reply as one text
ReplyText(r) == r.open \o << r.body >> \o r.close

\* str.replace(pat, '')
RECURSIVE Remove(_, _)
Remove(text, pat) ==
    IF Len(text) < Len(pat) THEN text
    ELSE IF SubSeq(text, 1, Len(pat)) = pat
         THEN Remove(SubSeq(text, Len(pat) + 1, Len(text)), pat)
         ELSE << text[1] >> \o Remove(Tail(text), pat)

\* str.strip()
RECURSIVE Strip(_)
Strip(text) ==
    IF text = <<>> THEN text
    ELSE IF text[1] = Newline THEN Strip(Tail(text))
    ELSE IF text[Len(text)] = Newline
         THEN Strip(SubSeq(text, 1, Len(text) - 1))
         ELSE text

\* the reply is parsed as it came
CleanNothing(text) == text

\* the four response.replace(..., '') of a stage, longest marker first,
\* then .strip()
Clean(text) ==
    Strip(Remove(Remove(Remove(Remove(text,
        <<Fence, Word("json"), Newline>>),
        <<Fence, Word("json")>>),
        <<Fence, Newline>>),
        <<Fence>>))

\* json.loads: the value, or <<>> when it raises JSONDecodeError
JsonLoads(text) ==
    IF Len(text) = 1 /\ text[1].t = "value" THEN << text[1].v >> ELSE <<>>

\* a list reply is taken as it is
KeepList(data) == data

\* an empty list is left as it is, and then fails the mapping check
FirstOfNonEmptyList(data) ==
    IF data.kind = "array" /\ Len(data.items) > 0 THEN data.items[1]
    ELSE data

\* `if isinstance(data, list): data = data[0] if len(data) > 0 else {}`
FirstOfList(data) ==
    IF data.kind = "array"
    THEN IF Len(data.items) > 0 THEN data.items[1] ELSE JMapping(EmptyMap)
    ELSE data

\* the fields a stage fills from the reply, with the defaults of data.get
StageDefaults(stage) ==
    CASE stage = "LogAnalyzer" ->
           ("error_type" :> "Unknown Error" @@ "error_message" :> "No message"
              @@ "stack_trace" :> "No stack trace" @@ "affected_files" :> "[]"
              @@ "severity" :> "medium")
      [] stage = "ErrorLocator" ->
           ("error_location" :> "Unknown" @@ "root_cause" :> "Unknown"
              @@ "relevant_code" :> "N/A"
              @@ "summary" :> "No summary available")
      [] OTHER ->
           ("description" :> "No description" @@ "affected_files" :> "[]"
              @@ "code_changes" :> "{}" @@ "tests_needed" :> "[]")

\* LogAnalysis(...), ErrorContext(...), Solution(...) built with data.get
TypedResult(stage, data) ==
    [ f \in DOMAIN StageDefaults(stage) |->
        IF f \in DOMAIN data.fields THEN data.fields[f]
        ELSE StageDefaults(stage)[f] ]

\* how the parsing of a reply ends
Outcome(ok, error, value) == [ok |-> ok, error |-> error, value |-> value]

\* the try block of a stage, from the cleaning to the typed result
ParseOutcome(stage, text) ==
    LET loaded == JsonLoads(Clean(text))
    IN  IF loaded = <<>> THEN Outcome(FALSE, "JSONDecodeError", <<>>)
        ELSE LET data == FirstOfList(loaded[1])
             IN  IF data.kind # "mapping"
                 THEN Outcome(FALSE, "ValueError", <<>>)
                 ELSE Outcome(TRUE, "", << TypedResult(stage, data) >>)

\* call_claude has returned a reply to a stage
InitParse ==
    /\ pc = "Replied"
    /\ rag = TRUE
    /\ repo_path = RepoRoot
    /\ \E w \in InitialTrees :
         /\ \A p \in DOMAIN w : w[p] = "v0"
         /\ CloneOf(w)
         /\ \E o \in ScanOrders(FilesIn(w)) :
              /\ file_index = BuildFileIndex(o)
              /\ class_index = BuildClassIndex(o, w)
              /\ last_scanned = LastScanned(o)
    /\ RunIdle
    /\ rl = RlIdle
    /\ ToolsIdle
    /\ query = <<>>
    /\ relevant_files = <<>>
    /\ \E st \in ParsingStages, o \in Openings, b \in Bodies, c \in Closings :
         reply = << [stage |-> st, open |-> o, body |-> b, close |-> c] >>
    /\ parsed = <<>>
    /\ other = <<>>

\* the stage parses the reply
ParseReply ==
    /\ pc = "Replied"
    /\ pc' = "Parsed"
    /\ parsed' = << ParseOutcome(reply[1].stage, ReplyText(reply[1])) >>
    /\ UNCHANGED <<callVars, stageVars, genVars, cbVars, repoVars, gitVars,
                   ctorVars, rl, toolVars, other, query, relevant_files, reply,
                   result,
                   raised, invoked, completions>>

\* json.loads of an affected_files member of the universe
FileListOf(text) ==
    IF text = "[G.java]" THEN << <<"G.java">> >> ELSE <<>>

\* the stage re-raises what its try block raised, or returns its typed
\* result to process_logs, which applies gate (2) to a Solution
StageReturns ==
    /\ pc = "Parsed"
    /\ LET out   == parsed[1]
           stage == reply[1].stage
       IN  IF ~out.ok
           THEN /\ Raise(out.error)
                /\ UNCHANGED stageVars
           ELSE LET typed == out.value[1]
                IN  CASE stage = "LogAnalyzer" ->
                           /\ analysis' = << LogAnalysis(typed["error_type"],
                                   FileListOf(typed["affected_files"])) >>
                           /\ pc' = AfterAnalyze
                           /\ UNCHANGED <<error_context, solution, result,
                                          raised>>
                      [] stage = "ErrorLocator" ->
                           /\ error_context' =
                                  << ErrorContext(typed["error_location"]) >>
                           /\ pc' = AfterLocate
                           /\ UNCHANGED <<analysis, solution, result, raised>>
                      [] OTHER ->
                           LET s == Solution(
                                       FileListOf(typed["affected_files"]))
                           IN  /\ solution' = << s >>
                               /\ IF NoFilesToChange(s)
                                  THEN Return(EarlyExit)
                                  ELSE /\ pc' = AfterPropose
                                       /\ UNCHANGED <<result, raised>>
                               /\ UNCHANGED <<analysis, error_context>>
    /\ UNCHANGED <<callVars, genVars, cbVars, repoVars, gitVars, ctorVars,
                   utilVars, invoked, completions>>

NextParse ==
    \/ ParseReply
    \/ StageReturns

SpecParse == InitParse /\ [][NextParse]_vars

\* the reply is a JSON text between an opening and a closing fence marker
Wrapped(r) == r.open # <<>> /\ r.close # <<>> /\ r.body.t = "value"

\* the opening is a fence with no language tag or with the tag json
PlainOrJsonFence(r) ==
    \A i \in 1..Len(r.open) : r.open[i] \in {Fence, Newline, Word("json")}

\* the reply is a one-element JSON array, wrapped or not
OneElementArray(r) ==
    /\ r.body.t = "value"
    /\ r.body.v.kind = "array"
    /\ Len(r.body.v.items) = 1

\* the same reply with the array's only element in the array's place
ElementReturnedDirectly(r) ==
    r.open \o << JsonText(r.body.v.items[1]) >> \o r.close

C17_FirstElementOrContractViolation ==
    (pc = "Parsed") =>
        LET r   == reply[1]
            out == parsed[1]
            v   == r.body.v
        IN  IF r.body.t # "value" \/ ~PlainOrJsonFence(r)
            THEN out = Outcome(FALSE, "JSONDecodeError", <<>>)
            ELSE IF v.kind = "array" /\ Len(v.items) = 0
            THEN TRUE
            ELSE LET taken == IF v.kind = "array" THEN v.items[1] ELSE v
                 IN  IF taken.kind = "mapping"
                     THEN out = Outcome(TRUE, "",
                                        << TypedResult(r.stage, taken) >>)
                     ELSE out = Outcome(FALSE, "ValueError", <<>>)

\* a list whose first element is a scalar was rejected, and so was a list
\* whose first element is a list
C17_Witness ==
    /\ pc = "Parsed"
    /\ reply[1].body.t = "value"
    /\ reply[1].body.v.kind = "array"
    /\ Len(reply[1].body.v.items) = 2
    /\ reply[1].body.v.items[1].kind = "scalar"
    /\ reply[1].body.v.items[2].kind = "mapping"
    /\ parsed[1] = Outcome(FALSE, "ValueError", <<>>)

(***************************************************************************)
(* utils.RateLimiter on its own: the specification SpecRL constructs a     *)
(* limiter, lets the clock advance and puts is_allowed calls to it.  The   *)
(* clock time.time() is taken to be non-decreasing, in whole seconds.      *)
(***************************************************************************)
MaxCallsArg  == 3
MaxPeriodArg == 2
MaxClock     == 3
MaxAttempts  == 5

\* the keys callers ask about
RlKeys == { "client1", "client2" }

\* RateLimiter(max_calls, period_seconds) has been constructed
InitRL ==
    /\ pc = "Limiting"
    /\ rag = FALSE
    /\ repo_path = RepoRoot
    /\ \E w \in InitialTrees :
         /\ \A p \in DOMAIN w : w[p] = "v0"
         /\ CloneOf(w)
    /\ file_index = EmptyMap
    /\ class_index = EmptyMap
    /\ last_scanned = EmptyMap
    /\ RunIdle
    /\ \E m \in 0..MaxCallsArg, p \in 0..MaxPeriodArg :
         rl = [RlIdle EXCEPT !.max_calls = m, !.period_seconds = p]
    /\ ToolsIdle
    /\ query = <<>>
    /\ relevant_files = <<>>
    /\ reply = <<>>
    /\ parsed = <<>>
    /\ other = <<>>

\* what an action of the limiter leaves alone
notRlVars == <<pc, callVars, stageVars, genVars, cbVars, repoVars, gitVars,
               ctorVars, query, relevant_files, reply, parsed, result,
               raised, invoked, completions, toolVars, other>>

\* the limit is taken to be reached one call later
LimitExceeded(recent, max_calls) == Len(recent) > max_calls

\* `if len(self.calls[key]) >= self.max_calls`
LimitReached(recent, max_calls) == Len(recent) >= max_calls

\* a denied call is recorded like an allowed one
RecordedOnDenialToo(recent, now) == Append(recent, now)

\* `return False` before `self.calls[key].append(now)`
RecordedOnDenial(recent, now) == recent

\* RateLimiter.is_allowed(key) at the clock reading rl.now
IsAllowed ==
    /\ Len(rl.history) < MaxAttempts
    /\ \E key \in RlKeys :
         LET before == IF key \in DOMAIN rl.calls THEN rl.calls[key] ELSE <<>>
             recent == SelectSeq(before,
                           LAMBDA t : rl.now - t < rl.period_seconds)
             denied == LimitReached(recent, rl.max_calls)
         IN  rl' = [rl EXCEPT
                      !.calls = MapPut(@, key,
                                  IF denied
                                  THEN RecordedOnDenial(recent, rl.now)
                                  ELSE Append(recent, rl.now)),
                      !.history = Append(@, [key |-> key, time |-> rl.now,
                                             allowed |-> ~denied])]
    /\ UNCHANGED notRlVars

\* a second passes
Tick ==
    /\ rl.now < MaxClock
    /\ rl' = [rl EXCEPT !.now = @ + 1]
    /\ UNCHANGED notRlVars

NextRL ==
    \/ IsAllowed
    \/ Tick

SpecRL == InitRL /\ [][NextRL]_vars

\* the calls for the key of call i that were allowed before it, less than
\* period_seconds before it
AllowedJustBefore(i) ==
    { j \in 1..(i - 1) :
        /\ rl.history[j].key = rl.history[i].key
        /\ rl.history[j].allowed
        /\ rl.history[i].time - rl.history[j].time < rl.period_seconds }

\* C20: of the is_allowed calls for one key, no more than max_calls that
\* lie less than period_seconds apart return True; a call made when
\* max_calls calls for its key were allowed less than period_seconds
\* before returns False; and calls for other keys do not count, so a call
\* with fewer than max_calls such calls for its own key returns True.
C20_RateLimiterBound ==
    \A i \in 1..Len(rl.history) :
        /\ rl.history[i].allowed =>
               Cardinality(AllowedJustBefore(i)) + 1 <= rl.max_calls
        /\ (Cardinality(AllowedJustBefore(i)) >= rl.max_calls) =>
               ~rl.history[i].allowed
        /\ (Cardinality(AllowedJustBefore(i)) < rl.max_calls) =>
               rl.history[i].allowed

\* max_calls = 3: five immediate calls for one key gave True, True, True,
\* False, False
C20_Witness ==
    /\ rl.max_calls = 3
    /\ rl.period_seconds > 0
    /\ Len(rl.history) = 5
    /\ \A i \in 1..5 :
           /\ rl.history[i].key = "client1"
           /\ rl.history[i].time = rl.history[1].time
           /\ rl.history[i].allowed = (i <= 3)

\* C21: for a limiter with max_calls >= 1, a call for a key made when every
\* allowed call for that key lies at least period_seconds back returns True,
\* however many calls for the key were denied in between.
C21_RateLimiterResets ==
    \A i \in 1..Len(rl.history) :
        (/\ rl.max_calls >= 1
         /\ \A j \in 1..(i - 1) :
                (rl.history[j].key = rl.history[i].key
                    /\ rl.history[j].allowed) =>
                    rl.history[i].time - rl.history[j].time
                        >= rl.period_seconds) =>
            rl.history[i].allowed

\* the limit of one call was exhausted, two calls were denied, the later of
\* them less than a period before the call that was allowed again
C21_Witness ==
    /\ rl.max_calls = 1
    /\ rl.period_seconds = 2
    /\ Len(rl.history) = 4
    /\ \A i \in 1..4 : rl.history[i].key = "client1"
    /\ rl.history[1].allowed
    /\ ~rl.history[2].allowed
    /\ ~rl.history[3].allowed
    /\ rl.history[4].allowed
    /\ rl.history[4].time - rl.history[1].time = rl.period_seconds
    /\ rl.history[4].time - rl.history[3].time < rl.period_seconds

(***************************************************************************)
(* CircuitBreaker (utils.py): calls of a wrapped function that succeeds or *)
(* fails, at the readings of a clock that never runs backwards.            *)
(***************************************************************************)
MaxThreshold == 2
MaxRecovery == 2

\* a breaker has been constructed; failure_threshold is at least one
InitCB ==
    /\ pc = "Start"
    /\ rag = FALSE
    /\ repo_path = RepoRoot
    /\ \E w \in InitialTrees :
         /\ \A p \in DOMAIN w : w[p] = "v0"
         /\ CloneOf(w)
    /\ file_index = EmptyMap
    /\ class_index = EmptyMap
    /\ last_scanned = EmptyMap
    /\ RunIdle
    /\ rl = RlIdle
    /\ \E n \in 1..MaxThreshold, r \in 0..MaxRecovery : breaker = CbNew(n, r)
    /\ cache = CacheNew(0)
    /\ rt = RtIdle
    /\ query = <<>>
    /\ relevant_files = <<>>
    /\ reply = <<>>
    /\ parsed = <<>>
    /\ other = <<>>

\* what an action of the breaker leaves alone
notCbVars == <<pc, callVars, stageVars, genVars, cbVars, repoVars, gitVars,
               ctorVars, query, relevant_files, reply, parsed, result,
               raised, invoked, completions, rl, cache, rt,
               other>>

\* the reset is attempted one second early
ShouldAttemptResetEarly(last_failure_time, now, recovery_timeout) ==
    /\ last_failure_time # <<>>
    /\ now - last_failure_time[1] >= recovery_timeout - 1

\* the reset is attempted only after more than recovery_timeout
ShouldAttemptResetLate(last_failure_time, now, recovery_timeout) ==
    /\ last_failure_time # <<>>
    /\ now - last_failure_time[1] > recovery_timeout

\* CircuitBreaker._should_attempt_reset
ShouldAttemptReset(last_failure_time, now, recovery_timeout) ==
    /\ last_failure_time # <<>>
    /\ now - last_failure_time[1] >= recovery_timeout

\* CircuitBreaker._on_success
OnSuccess(b) == [b EXCEPT !.failure_count = 0, !.state = "closed"]

\* the breaker opens only when the count reaches the threshold exactly
OnFailureAtThreshold(b) ==
    LET count == b.failure_count + 1
    IN  [b EXCEPT !.failure_count = count,
                  !.last_failure_time = << b.now >>,
                  !.state = IF count = b.failure_threshold THEN "open"
                            ELSE @]

\* CircuitBreaker._on_failure at the clock reading b.now
OnFailure(b) ==
    LET count == b.failure_count + 1
    IN  [b EXCEPT !.failure_count = count,
                  !.last_failure_time = << b.now >>,
                  !.state = IF count >= b.failure_threshold THEN "open"
                            ELSE @]

\* one entry of the history of calls
CbEntry(before, b, called, outcome) ==
    [time |-> before.now, before |-> before.state, invoked |-> called,
     outcome |-> outcome, after |-> b.state, count |-> b.failure_count]

\* CircuitBreaker.call(func) where func returns (ok) or raises
CbCall ==
    /\ Len(breaker.history) < MaxAttempts
    /\ \E ok \in BOOLEAN :
         LET rejected == /\ breaker.state = "open"
                         /\ ~ShouldAttemptReset(breaker.last_failure_time,
                                                breaker.now,
                                                breaker.recovery_timeout)
             entered == IF breaker.state = "open"
                        THEN [breaker EXCEPT !.state = "half-open"]
                        ELSE breaker
             after == IF rejected THEN breaker
                      ELSE IF ok THEN OnSuccess(entered)
                      ELSE OnFailure(entered)
             outcome == IF rejected THEN "rejected"
                        ELSE IF ok THEN "returned" ELSE "failed"
         IN  breaker' = [after EXCEPT !.history =
                            Append(@, CbEntry(breaker, after, ~rejected,
                                              outcome))]
    /\ UNCHANGED notCbVars

\* a second passes
CbTick ==
    /\ breaker.now < MaxClock
    /\ breaker' = [breaker EXCEPT !.now = @ + 1]
    /\ UNCHANGED notCbVars

NextCB ==
    \/ CbCall
    \/ CbTick

SpecCB == InitCB /\ [][NextCB]_vars

\* the time of the last failing call before call i, or <<>>
LastFailureBefore(i) ==
    LET failed == {j \in 1..(i - 1) : breaker.history[j].outcome = "failed"}
    IN  IF failed = {} THEN <<>>
        ELSE << breaker.history[CHOOSE j \in failed :
                                    \A k \in failed : k <= j].time >>

\* C22: the breaker is open after failure_threshold failing calls in a row,
\* and a call made while it is open and less than recovery_timeout after
\* the last failure is refused with "Circuit breaker is open" and the
\* wrapped function is not invoked
C22_BreakerOpens ==
    \A i \in 1..Len(breaker.history) :
        /\ (/\ i >= breaker.failure_threshold
            /\ \A j \in (i - breaker.failure_threshold + 1)..i :
                   breaker.history[j].outcome = "failed") =>
               /\ breaker.history[i].after = "open"
               /\ i = Len(breaker.history) => breaker.state = "open"
        /\ (/\ breaker.history[i].before = "open"
            /\ LastFailureBefore(i) # <<>>
            /\ breaker.history[i].time - LastFailureBefore(i)[1]
                   < breaker.recovery_timeout) =>
               /\ breaker.history[i].outcome = "rejected"
               /\ ~breaker.history[i].invoked

\* two failures in a row open a breaker of threshold two, and the call that
\* follows within the timeout is refused
C22_Witness ==
    /\ breaker.failure_threshold = 2
    /\ breaker.recovery_timeout = 2
    /\ Len(breaker.history) = 3
    /\ breaker.history[1].outcome = "failed"
    /\ breaker.history[1].after = "closed"
    /\ breaker.history[2].outcome = "failed"
    /\ breaker.history[2].after = "open"
    /\ breaker.history[3].outcome = "rejected"
    /\ breaker.history[3].time - breaker.history[2].time = 1
    /\ breaker.state = "open"

\* C23: a call made while the breaker is open and at least recovery_timeout
\* after the last failure invokes the wrapped function; when the function
\* succeeds the call returns and the breaker is closed with failure_count 0
C23_BreakerRecovers ==
    \A i \in 1..Len(breaker.history) :
        (/\ breaker.history[i].before = "open"
         /\ LastFailureBefore(i) # <<>>
         /\ breaker.history[i].time - LastFailureBefore(i)[1]
                >= breaker.recovery_timeout) =>
            /\ breaker.history[i].invoked
            /\ breaker.history[i].outcome \in {"returned", "failed"}
            /\ breaker.history[i].outcome = "returned" =>
                   /\ breaker.history[i].after = "closed"
                   /\ breaker.history[i].count = 0

\* an open breaker lets the call through exactly recovery_timeout after the
\* failure, and the call succeeds
C23_Witness ==
    /\ breaker.recovery_timeout = 2
    /\ Len(breaker.history) = 2
    /\ breaker.history[1].outcome = "failed"
    /\ breaker.history[1].after = "open"
    /\ breaker.history[2].before = "open"
    /\ breaker.history[2].time - breaker.history[1].time = 2
    /\ breaker.history[2].outcome = "returned"
    /\ breaker.state = "closed"
    /\ breaker.failure_count = 0

(***************************************************************************)
(* SimpleCache (utils.py): set, get, clear and cleanup_expired at the      *)
(* readings of a clock that never runs backwards.  cache.sets is the last  *)
(* set of each key since the last clear(), cache.got the last get.         *)
(***************************************************************************)
MaxTtl == 2

\* the entries of the dict are independent of one another: one key
CacheKeys == {"k1"}

\* a cache has been constructed with its default TTL
InitCache ==
    /\ pc = "Start"
    /\ rag = FALSE
    /\ repo_path = RepoRoot
    /\ \E w \in InitialTrees :
         /\ \A p \in DOMAIN w : w[p] = "v0"
         /\ CloneOf(w)
    /\ file_index = EmptyMap
    /\ class_index = EmptyMap
    /\ last_scanned = EmptyMap
    /\ RunIdle
    /\ rl = RlIdle
    /\ breaker = CbNew(0, 0)
    /\ \E d \in 0..MaxTtl : cache = CacheNew(d)
    /\ rt = RtIdle
    /\ query = <<>>
    /\ relevant_files = <<>>
    /\ reply = <<>>
    /\ parsed = <<>>
    /\ other = <<>>

\* what an action of the cache leaves alone
notCacheVars == <<pc, callVars, stageVars, genVars, cbVars, repoVars,
                  gitVars, ctorVars, query, relevant_files, reply, parsed,
                  result, raised, invoked, completions, rl, breaker, rt,
               other>>

\* the ttl_seconds arguments of set: <<>> is the omitted argument (None)
TtlArgs == {<<>>} \cup {<< t >> : t \in 0..MaxTtl}

\* `ttl = ttl_seconds or self.ttl_seconds` : None and 0 are both falsy
TtlOf(arg, default) ==
    IF arg = <<>> \/ arg[1] = 0 THEN default ELSE arg[1]

\* SimpleCache.set(key, value, ttl_seconds)
CacheSet ==
    /\ \E key \in CacheKeys, value \in Contents, arg \in TtlArgs :
         LET expiry == cache.now + TtlOf(arg, cache.ttl_seconds)
         IN  cache' = [cache EXCEPT
                         !.cache = MapPut(@, key, [value |-> value,
                                                   expiry |-> expiry]),
                         !.sets = MapPut(@, key, [time |-> cache.now,
                                                  value |-> value,
                                                  ttl |-> arg])]
    /\ UNCHANGED notCacheVars

\* the dict without a key
MapDel(m, k) == [x \in (DOMAIN m) \ {k} |-> m[x]]

\* SimpleCache.get(key) : <<>> is None
CacheGet ==
    /\ \E key \in CacheKeys :
         LET absent == key \notin DOMAIN cache.cache
             expired == ~absent /\ cache.now > cache.cache[key].expiry
             value == IF absent \/ expired THEN <<>>
                      ELSE << cache.cache[key].value >>
             after == IF expired THEN MapDel(cache.cache, key)
                      ELSE cache.cache
         IN  cache' = [cache EXCEPT
                         !.cache = after,
                         !.got = << [key |-> key, time |-> cache.now,
                                     value |-> value,
                                     kept |-> key \in DOMAIN after,
                                     since |-> IF key \in DOMAIN cache.sets
                                               THEN << cache.sets[key] >>
                                               ELSE <<>>] >>]
    /\ UNCHANGED notCacheVars

\* SimpleCache.clear()
CacheClear ==
    /\ cache.cache # EmptyMap
    /\ cache' = [cache EXCEPT !.cache = EmptyMap, !.sets = EmptyMap]
    /\ UNCHANGED notCacheVars

\* SimpleCache.cleanup_expired()
CacheCleanupExpired ==
    /\ LET expired_keys == {key \in DOMAIN cache.cache :
                               cache.now > cache.cache[key].expiry}
       IN  /\ expired_keys # {}
           /\ cache' = [cache EXCEPT
                          !.cache = [key \in (DOMAIN @) \ expired_keys |->
                                        @[key]]]
    /\ UNCHANGED notCacheVars

\* a second passes
CacheTick ==
    /\ cache.now < MaxClock
    /\ cache' = [cache EXCEPT !.now = @ + 1]
    /\ UNCHANGED notCacheVars

NextCache ==
    \/ CacheSet
    \/ CacheGet
    \/ CacheClear
    \/ CacheCleanupExpired
    \/ CacheTick

SpecCache == InitCache /\ [][NextCache]_vars

\* the TTL a set asks for: its explicit argument, else the cache's default
AskedTtl(s) == IF s.ttl = <<>> THEN cache.ttl_seconds ELSE s.ttl[1]

\* C24: a get that follows set(key, value, t) returns the value up to
\* set-time + t and None afterwards, the expired entry being removed; t is
\* the explicit argument, or the default TTL when none is given; and an
\* entry in the cache holds the value and the expiry of the last set
C24_CacheExpiry ==
    /\ cache.got # <<>> =>
         LET g == cache.got[1]
         IN  g.since # <<>> =>
               LET s == g.since[1]
               IN  IF g.time <= s.time + AskedTtl(s)
                   THEN g.value = << s.value >>
                   ELSE g.value = <<>> /\ ~g.kept
    /\ \A key \in DOMAIN cache.cache :
         key \in DOMAIN cache.sets =>
            /\ cache.cache[key].value = cache.sets[key].value
            /\ cache.cache[key].expiry =
                   cache.sets[key].time + AskedTtl(cache.sets[key])

(***************************************************************************)
(* retry (utils.py): one call of the wrapper around a function whose every *)
(* invocation returns a value or raises an Exception.  rt.outcomes lists   *)
(* the invocations made so far.                                            *)
(***************************************************************************)
\* what the wrapped function may return, and what it may raise
Results == {"r0", "r1"}
Exceptions == {"e0", "e1"}

\* the wrapper of retry(max_attempts=n) has been called
InitRetry ==
    /\ pc = "Start"
    /\ rag = FALSE
    /\ repo_path = RepoRoot
    /\ \E w \in InitialTrees :
         /\ \A p \in DOMAIN w : w[p] = "v0"
         /\ CloneOf(w)
    /\ file_index = EmptyMap
    /\ class_index = EmptyMap
    /\ last_scanned = EmptyMap
    /\ RunIdle
    /\ rl = RlIdle
    /\ breaker = CbNew(0, 0)
    /\ cache = CacheNew(0)
    /\ \E n \in 0..MaxAttempts :
         rt = [RtIdle EXCEPT !.max_attempts = n, !.pc = "loop"]
    /\ query = <<>>
    /\ relevant_files = <<>>
    /\ reply = <<>>
    /\ parsed = <<>>
    /\ other = <<>>

\* what an action of the wrapper leaves alone
notRtVars == <<pc, callVars, stageVars, genVars, cbVars, repoVars, gitVars,
               ctorVars, query, relevant_files, reply, parsed, result,
               raised, invoked, completions, rl, breaker, cache,
               other>>

\* the loop runs once more than max_attempts
InRangeOneMore(attempt, max_attempts) == attempt <= max_attempts

\* `for attempt in range(max_attempts)`
InRange(attempt, max_attempts) == attempt < max_attempts

\* `return func(*args, **kwargs)` : the function returns
RtReturn ==
    /\ rt.pc = "loop"
    /\ InRange(rt.attempt, rt.max_attempts)
    /\ \E r \in Results :
         rt' = [rt EXCEPT !.outcomes = Append(@, [ok |-> TRUE, value |-> r]),
                          !.returned = << r >>,
                          !.pc = "returned"]
    /\ UNCHANGED notRtVars

\* the function raises: the exception is kept, and unless this was the
\* last attempt the wrapper goes to sleep
RtExcept ==
    /\ rt.pc = "loop"
    /\ InRange(rt.attempt, rt.max_attempts)
    /\ \E x \in Exceptions :
         rt' = [rt EXCEPT !.outcomes = Append(@, [ok |-> FALSE, value |-> x]),
                          !.last_exception = << x >>,
                          !.attempt = IF rt.attempt < rt.max_attempts - 1
                                      THEN @ ELSE @ + 1,
                          !.pc = IF rt.attempt < rt.max_attempts - 1
                                 THEN "sleep" ELSE "loop"]
    /\ UNCHANGED notRtVars

\* time.sleep(wait_time) returns and the loop goes on
RtSleep ==
    /\ rt.pc = "sleep"
    /\ rt' = [rt EXCEPT !.attempt = @ + 1, !.sleeps = @ + 1, !.pc = "loop"]
    /\ UNCHANGED notRtVars

\* `raise last_exception` after the loop; raising None is a TypeError
RtRaise ==
    /\ rt.pc = "loop"
    /\ ~InRange(rt.attempt, rt.max_attempts)
    /\ rt' = [rt EXCEPT !.raised = IF rt.last_exception = <<>>
                                   THEN << "TypeError" >>
                                   ELSE rt.last_exception,
                        !.pc = "raised"]
    /\ UNCHANGED notRtVars

NextRetry ==
    \/ RtReturn
    \/ RtExcept
    \/ RtSleep
    \/ RtRaise

\* the function and the sleep both come back
SpecRetry == InitRetry /\ [][NextRetry]_vars /\ WF_vars(NextRetry)

\* the wrapper has returned or raised
RtDone == rt.pc \in {"returned", "raised"}

\* the wrapper never invokes the function after a success nor more than
\* max_attempts times; it returns the result of the first success, and
\* raises the last exception once max_attempts invocations have failed
RtFirstSuccessOrLastException ==
    LET k == Len(rt.outcomes)
    IN  rt.max_attempts >= 1 =>
          /\ k <= rt.max_attempts
          /\ \A j \in 1..(k - 1) : ~rt.outcomes[j].ok
          /\ rt.pc = "returned" =>
               /\ k >= 1
               /\ rt.outcomes[k].ok
               /\ rt.returned = << rt.outcomes[k].value >>
               /\ rt.raised = <<>>
          /\ rt.pc = "raised" =>
               /\ k = rt.max_attempts
               /\ ~rt.outcomes[k].ok
               /\ rt.raised = << rt.outcomes[k].value >>
               /\ rt.returned = <<>>
          /\ (k >= 1 /\ rt.outcomes[k].ok) => rt.pc = "returned"
          /\ (k = rt.max_attempts /\ ~rt.outcomes[k].ok) =>
               rt.pc \in {"loop", "raised"}

\* C25: a function wrapped with retry(max_attempts=n), n >= 1, is invoked
\* until its first success and at most n times; the wrapper returns the
\* first successful result, re-raises the last exception after n failed
\* invocations, and always terminates
C25_RetryBounded == [] RtFirstSuccessOrLastException /\ <> RtDone

\* two failures, then the third and last attempt succeeds
C25_Witness ==
    /\ rt.max_attempts = 3
    /\ Len(rt.outcomes) = 3
    /\ ~rt.outcomes[1].ok
    /\ ~rt.outcomes[2].ok
    /\ rt.outcomes[3].ok
    /\ rt.returned = << rt.outcomes[3].value >>
    /\ rt.sleeps = 2
    /\ rt.pc = "returned"

(***************************************************************************)
(* Completion calls of a run.                                              *)
(***************************************************************************)
\* the completion calls the stages invoked so far have to account for: one
\* per invocation of the three reasoning stages, one per generation attempt
CompletionsDue ==
    invoked["LogAnalyzer"] + invoked["ErrorLocator"]
        + invoked["SolutionArchitect"] + Len(gen_calls)

\* C26: LogAnalyzer, ErrorLocator and SolutionArchitect issue exactly one
\* completion call per invocation and CodeGenerator one per file whose
\* content was found, failed calls are not retried and VersionControlManager
\* makes none; a full run makes 3 + the number of generation attempts
C26_CompletionCalls ==
    /\ completions = CompletionsDue
    /\ invoked["GitManager"] = 1 => completions = 3 + Len(gen_calls)

(***************************************************************************)
(* The repository is left alone until the reasoning is over.               *)
(***************************************************************************)
\* the exceptions that leave process_logs from the four reasoning stages or
\* from an observer callback
RaisedBeforeGit ==
    StageFailures \cup {"UnboundLocalError", "transport_error",
                        "callback_error"}

\* the generation loop and the callback loop have both run to their end
ReasoningFinished ==
    /\ solution # <<>>
    /\ gen_i > Len(solution[1].affected_files)
    /\ (callback /\ rag) => cb_i > Len(fixed_files)

\* a step that touches the repository is a step of create_fix_branch, taken
\* when every completion call and every callback is over
RepositoryStepIsLast ==
    (repoVars' # repoVars) =>
        /\ invoked'["GitManager"] = 1
        /\ ReasoningFinished
        /\ completions' = completions
        /\ cb_log' = cb_log

\* once the repository has been touched no completion call or callback
\* follows
NothingAfterRepositoryStep ==
    (git_log # <<>>) => (completions' = completions /\ cb_log' = cb_log)

\* a run aborted by one of those exceptions has run no repository operation
AbortLeavesRepository ==
    (pc = "Raised" /\ raised \in RaisedBeforeGit) =>
        /\ git_log = <<>>
        /\ invoked["GitManager"] = 0
        /\ branches = {MainBranch}
        /\ head = MainBranch

\* C27: no branch creation, file write, staging or commit happens before
\* every completion call and every observer callback of the run has
\* finished, so a run aborted by an exception in LogAnalyzer, ErrorLocator,
\* SolutionArchitect, CodeGenerator or a callback leaves the branches and
\* the working tree as they were
C27_RepositoryUntouchedUntilDone ==
    /\ [] AbortLeavesRepository
    /\ [][RepositoryStepIsLast /\ NothingAfterRepositoryStep]_vars

\* a callback has raised after the generation of a file
C27_Witness ==
    /\ pc = "Raised"
    /\ raised = "callback_error"
    /\ cb_log # <<>>
    /\ fixed_files # <<>>
    /\ completions = 3 + Len(gen_calls)
    /\ git_log = <<>>

\* C28: in every result returned by process_logs success is true exactly
\* when files_changed is non-empty; success implies a non-empty branch_name
\* and files_changed equal to the keys of FixedFiles; the result of an
\* early-exit gate has branch_name "" and commit_message ""
C28_ResultShape ==
    (pc = "Returned" /\ result # <<>>) =>
        LET r == result[1]
        IN  /\ r.success <=> (r.files_changed # <<>>)
            /\ r.success =>
                 /\ r.branch_name # <<>>
                 /\ r.files_changed = DictKeys(fixed_files)
            /\ invoked["GitManager"] = 0 =>
                 /\ r.branch_name = <<>>
                 /\ r.commit_message = <<>>
                 /\ ~r.success

\* a commit of two fixed files has been reported
C28_Witness ==
    /\ pc = "Returned"
    /\ result # <<>>
    /\ result[1].success
    /\ Len(result[1].files_changed) = 2
    /\ result[1].branch_name = branch_name
    /\ git_log[Len(git_log)] = [op |-> "commit", ok |-> TRUE]

\* C29: a result of create_fix_branch that carries a non-empty branch_name
\* names a branch that exists when the result is returned, also when the
\* result reports a failed branch creation
C29_NamedBranchExists ==
    (pc = "Returned" /\ result # <<>> /\ invoked["GitManager"] = 1
        /\ result[1].branch_name # <<>>) =>
            result[1].branch_name \in branches

(***************************************************************************)
(* Successive runs on one clone.  The reasoning stages leave the           *)
(* repository alone, so a run is taken from the point where process_logs   *)
(* holds a non-empty FixedFiles and calls create_fix_branch; the clone     *)
(* keeps what the earlier runs did to it.                                  *)
(***************************************************************************)
MaxRuns == 2

\* the runs that have reached create_fix_branch so far
RunsStarted ==
    Cardinality({i \in DOMAIN git_log : git_log[i].op = "checkout -b"})

\* the FixedFiles of a run: one fixed file
RunFixes ==
    { << [k |-> key, c |-> c] >> :
        key \in { <<"a", "F.java">>, <<"G.java">> }, c \in Contents }

\* an Orchestrator has been built on a fresh clone
InitRuns ==
    /\ pc = "Idle"
    /\ rag = TRUE
    /\ repo_path = RepoRoot
    /\ \E w \in InitialTrees :
         /\ CloneOf(w)
         /\ \E o \in ScanOrders(FilesIn(w)) :
              /\ file_index = BuildFileIndex(o)
              /\ class_index = BuildClassIndex(o, w)
              /\ last_scanned = LastScanned(o)
    /\ RunIdle
    /\ rl = RlIdle
    /\ ToolsIdle
    /\ query = <<>>
    /\ relevant_files = <<>>
    /\ reply = <<>>
    /\ parsed = <<>>
    /\ other = <<>>

\* process_logs is called again and gets as far as the call of
\* create_fix_branch: three stage replies, one generated file, no observer
RunReachesGit ==
    /\ pc \in {"Idle", "Returned", "Raised"}
    /\ RunsStarted < MaxRuns
    /\ pc' = "Generated"
    /\ logs' = <<"log">>
    /\ file_contents' = EmptyMap
    /\ callback' = FALSE
    /\ \E fixes \in RunFixes :
         /\ analysis' = << LogAnalysis(<<"N", "P">>, DictKeys(fixes)) >>
         /\ solution' = << Solution(DictKeys(fixes)) >>
         /\ fixed_files' = fixes
    /\ error_context' = << ErrorContext("Unknown") >>
    /\ gen_i' = 2
    /\ gen_calls' = <<>>
    /\ cb_i' = 1
    /\ cb_log' = <<>>
    /\ branch_name' = <<>>
    /\ write_i' = 1
    /\ result' = <<>>
    /\ raised' = ""
    /\ invoked' = [a \in Agents |-> IF a = "GitManager" THEN 0 ELSE 1]
    /\ completions' = 4
    /\ UNCHANGED <<repoVars, ctorVars, utilVars>>

NextRuns ==
    \/ RunReachesGit
    \/ CreateFixBranch
    \/ GitWriteFile
    \/ GitAddAll
    \/ GitNoChanges
    \/ GitCommit

SpecRuns == InitRuns /\ [][NextRuns]_vars

\* C30: the fix branch a run has committed on holds, relative to the branch
\* checked out before the first run, only that run's own fix commit and no
\* fix commit of an earlier run
C30_FixBranchIsolated ==
    (pc = "Returned" /\ result # <<>> /\ result[1].success) =>
        commits[result[1].branch_name] = << NumCommits >>

(***************************************************************************)
(* Order of the observer callbacks.                                        *)
(***************************************************************************)
\* the observer has been given the file of the j-th completion call of
\* generate_fix
DeliveredFor(j) ==
    \E m \in 1..Len(cb_log) : cb_log[m].key = gen_calls[j].key

\* C31: the observer callbacks come in generation order, each one right
\* after the generation step of its own file: when the completion call for
\* the next affected file is issued, the callback of every file generated
\* before it has been delivered
C31_CallbackAfterEachGeneration ==
    (callback /\ rag) =>
        /\ \A j \in 1..(Len(gen_calls) - 1) :
               Basename(gen_calls[j].key) \in DOMAIN file_index =>
                   DeliveredFor(j)
        /\ \A m, n \in 1..Len(cb_log) :
               m < n =>
                 \E i, j \in 1..Len(fixed_files) :
                     /\ i <= j
                     /\ fixed_files[i].k = cb_log[m].key
                     /\ fixed_files[j].k = cb_log[n].key

\* C32: without a retrieval index locate_error fails before its completion
\* call, so a run on a non-empty batch never gets past the analysis: it
\* makes exactly one completion call, LogAnalyzer's, never reaches
\* Localized, and ends with an exception once ErrorLocator is invoked
C32_NoIndexAbortsInLocator ==
    (~rag /\ pc # "Idle" /\ logs # <<>>) =>
        /\ pc \in {"Analyzed", "Raised"}
        /\ completions = 1
        /\ error_context = <<>>
        /\ invoked["ErrorLocator"] = 1 =>
             /\ pc = "Raised"
             /\ raised = "UnboundLocalError"
             /\ result = <<>>
        /\ \A a \in {"SolutionArchitect", "CodeGenerator", "GitManager"} :
               invoked[a] = 0

\* the analysis succeeded and the locator raised on the unbound prompt
C32_Witness ==
    /\ ~rag
    /\ analysis # <<>>
    /\ invoked["ErrorLocator"] = 1
    /\ pc = "Raised"
    /\ raised = "UnboundLocalError"
    /\ completions = 1

(***************************************************************************)
(* The empty JSON array as a reply.                                        *)
(***************************************************************************)
\* the reply is `[]`, bare or in a fence that the cleaning removes
EmptyArrayReply(r) ==
    /\ r.body = JsonText(JArray(<<>>))
    /\ PlainOrJsonFence(r)

\* C33: a reply that is an empty JSON array is taken as an empty mapping and
\* not as a contract violation: the stage returns a typed result holding
\* only defaults, and in SolutionArchitect the run then ends with the
\* early-exit failure result of the empty affected_files, not an exception
C33_EmptyArrayIsEmptyMapping ==
    (pc # "Replied" /\ EmptyArrayReply(reply[1])) =>
        /\ parsed[1] = Outcome(TRUE, "", << StageDefaults(reply[1].stage) >>)
        /\ pc # "Raised"
        /\ raised = ""
        /\ (reply[1].stage = "SolutionArchitect" /\ pc # "Parsed") =>
             /\ pc = "Returned"
             /\ result = << GitOperation(<<>>, <<>>, <<>>, FALSE) >>
             /\ solution = << Solution(<<>>) >>

\* the architect replied with a fenced empty array and the run took the
\* early exit
C33_Witness ==
    /\ pc = "Returned"
    /\ reply[1].stage = "SolutionArchitect"
    /\ reply[1].body = JsonText(JArray(<<>>))
    /\ reply[1].open = <<Fence, Word("json"), Newline>>
    /\ parsed[1].ok
    /\ result # <<>>
    /\ ~result[1].success

(***************************************************************************)
(* Order of the entries find_relevant_files returns.                       *)
(***************************************************************************)
\* the place of a pattern in file_patterns
PatternRank(style) == CHOOSE i \in 1..Len(FilePatterns) : FilePatterns[i] = style

\* when the loops over the patterns and their matches first meet a frame
\* naming the file: pattern first, place in the text second
StackDiscovery(st, filename) ==
    LET met == { PatternRank(st[k].style) * (Len(st) + 1) + k :
                   k \in { x \in 1..Len(st) : Basename(st[x].file) = filename } }
    IN  CHOOSE r \in met : \A x \in met : r <= x

\* when the loop over the capitalized tokens first meets the path: token in
\* text order first, place in the token's path list second
ClassDiscovery(em, path) ==
    LET hits == { w * (ClassPathLimit + 1) + n :
                    w \in { x \in 1..Len(em) : em[x] \in DOMAIN class_index },
                    n \in 1..ClassPathLimit } \cap
                { r \in 1..((Len(em) + 1) * (ClassPathLimit + 1)) :
                    LET w == r \div (ClassPathLimit + 1)
                        n == r % (ClassPathLimit + 1)
                    IN  /\ w \in 1..Len(em)
                        /\ em[w] \in DOMAIN class_index
                        /\ n \in 1..Len(class_index[em[w]])
                        /\ class_index[em[w]][n] = path }
    IN  CHOOSE r \in hits : \A x \in hits : r <= x

\* C34: in the list find_relevant_files returns every stack_trace entry
\* stands before every class_match entry, the stack_trace entries stand in
\* the order of discovery (patterns in their fixed order, the matches of a
\* pattern in text order) and the class_match entries in the order of the
\* error message's tokens
C34_DiscoveryOrder ==
    (pc = "Queried") =>
        \A i, j \in 1..Len(relevant_files) :
            i < j =>
              LET a == relevant_files[i]
                  b == relevant_files[j]
                  q == query[1]
              IN  /\ ~(a.relevance = "class_match"
                         /\ b.relevance = "stack_trace")
                  /\ (a.relevance = "stack_trace"
                         /\ b.relevance = "stack_trace") =>
                       StackDiscovery(q.stack_trace, a.filename)
                           < StackDiscovery(q.stack_trace, b.filename)
                  /\ (a.relevance = "class_match"
                         /\ b.relevance = "class_match") =>
                       ClassDiscovery(q.error_message, a.path)
                           < ClassDiscovery(q.error_message, b.path)

\* the trace names G.java in a Python frame and then F.java in a Java
\* frame: F.java comes first in the list
C34_Witness ==
    /\ pc = "Queried"
    /\ Len(query[1].stack_trace) = 2
    /\ query[1].stack_trace[1].style = "python"
    /\ query[1].stack_trace[2].style = "java"
    /\ Len(relevant_files) = 2
    /\ relevant_files[1].filename = Basename(query[1].stack_trace[2].file)
    /\ relevant_files[2].filename = Basename(query[1].stack_trace[1].file)
    /\ relevant_files[1].relevance = "stack_trace"
    /\ relevant_files[2].relevance = "stack_trace"

(***************************************************************************)
(* The window of an excerpt.                                               *)
(***************************************************************************)
\* the lines first..last of a file
LinesOf(first, last) == [kind |-> "lines", from |-> first, to |-> last]

\* the first lines of a file
HeadOf(last) == [kind |-> "head", from |-> 1, to |-> last]

\* C35: for a referenced line n with 1 <= n <= L, L the number of lines of
\* the file, the excerpt is the lines max(1, n - 10) to min(L, n + 10); with
\* no line given, n = 0 or n > L it is the first min(20, L) lines
C35_ExcerptWindow ==
    (pc = "Queried") =>
        \A i \in 1..Len(relevant_files) :
            LET e == relevant_files[i]
                L == NumLines(wt[e.path])
                n == e.line.n
            IN  wt[e.path] \notin {NoFile, Unreadable} =>
                  IF e.relevance = "stack_trace" /\ 1 <= n /\ n <= L
                  THEN e.content = LinesOf(IF n - 10 > 1 THEN n - 10 ELSE 1,
                                           IF n + 10 < L THEN n + 10 ELSE L)
                  ELSE e.content = HeadOf(IF L < 20 THEN L ELSE 20)

\* line 12 of a file of 25 lines gave the lines 2 to 22, and a class match
\* in the same file list gave no more than the first 20 lines
C35_Witness ==
    /\ pc = "Queried"
    /\ Len(relevant_files) = 2
    /\ relevant_files[1].relevance = "stack_trace"
    /\ relevant_files[1].line.n = 12
    /\ NumLines(wt[relevant_files[1].path]) = 25
    /\ relevant_files[1].content = LinesOf(2, 22)
    /\ relevant_files[2].content.kind = "head"

(***************************************************************************)
(* Class matching.                                                         *)
(***************************************************************************)
\* the tokens of the message that are keys of class_index, by position
IndexedTokens(em) ==
    { w \in 1..Len(em) : em[w] \in DOMAIN class_index }

\* the path is one of the first two of the token's path list
AmongFirstTwo(word, path) ==
    \E n \in 1..2 :
        /\ n <= Len(class_index[word])
        /\ class_index[word][n] = path

\* the token that brought a class_match entry in: the first one that lists
\* its path among its first two
BroughtBy(em, path) ==
    CHOOSE w \in IndexedTokens(em) :
        /\ AmongFirstTwo(em[w], path)
        /\ \A x \in IndexedTokens(em) : AmongFirstTwo(em[x], path) => w <= x

\* C36: a class_match entry is one of the first two paths of a capitalized
\* token that is a key of class_index; unless the list was cut, each of
\* those paths is in the list, once, as a class_match entry or as the
\* stack_trace entry that selected it before; no token brings in more than
\* two entries, and a token that is no key brings in none
C36_ClassMatching ==
    (pc = "Queried") =>
        LET em  == query[1].error_message
            cls == { i \in 1..Len(relevant_files) :
                        relevant_files[i].relevance = "class_match" }
        IN  /\ \A i \in cls :
                   \E w \in IndexedTokens(em) :
                       AmongFirstTwo(em[w], relevant_files[i].path)
            /\ Len(relevant_files) < query[1].max_files =>
                 \A w \in IndexedTokens(em) :
                     \A p \in FullPaths :
                         AmongFirstTwo(em[w], p) =>
                             Cardinality({ i \in 1..Len(relevant_files) :
                                 relevant_files[i].path = p }) = 1
            /\ \A w \in IndexedTokens(em) :
                   Cardinality({ i \in cls :
                       BroughtBy(em, relevant_files[i].path) = w }) <= 2
            /\ IndexedTokens(em) = {} => cls = {}

\* the class Foo is declared in three files: the message "Foo" brought in
\* the first two of them and not the third
C36_Witness ==
    /\ pc = "Queried"
    /\ query[1].error_message = << "Foo" >>
    /\ query[1].stack_trace = <<>>
    /\ query[1].max_files = DefaultMaxFiles
    /\ "Foo" \in DOMAIN class_index
    /\ Len(class_index["Foo"]) = 3
    /\ Len(relevant_files) = 2
    /\ relevant_files[1].path = class_index["Foo"][1]
    /\ relevant_files[2].path = class_index["Foo"][2]
    /\ relevant_files[2].relevance = "class_match"

(***************************************************************************)
(* The lookups by filename: an Orchestrator with a provider on a clone     *)
(* that has two files named F.java, one process_logs run, and a            *)
(* find_relevant_files call on the provider once the run is over.          *)
(***************************************************************************)
\* the clone has a/F.java and b/F.java with different texts
InitLookup ==
    /\ Init
    /\ rag
    /\ wt[PathJoin(RepoRoot, <<"a", "F.java">>)] = "v1"
    /\ wt[PathJoin(RepoRoot, <<"b", "F.java">>)] = "v0"
    /\ wt[PathJoin(RepoRoot, <<"G.java">>)] = NoFile

\* stack traces of one frame that names F.java, with and without a directory
LookupTraces ==
    { << Frame("python", <<"a", "F.java">>, LineText(1, FALSE)) >>,
      << Frame("java",   <<"F.java">>,      LineText(1, FALSE)) >> }

\* codebase_provider.find_relevant_files(stack_trace, '') after the run
QueryProvider ==
    /\ pc \in {"Returned", "Raised"}
    /\ query = <<>>
    /\ \E st \in LookupTraces :
         /\ query' = << [stack_trace |-> st, error_message |-> <<>>,
                         max_files |-> DefaultMaxFiles] >>
         /\ relevant_files' =
                ReturnCut(Collect(st, <<>>, FALSE).files, DefaultMaxFiles)
    /\ UNCHANGED <<pc, callVars, stageVars, genVars, cbVars, repoVars, gitVars,
                   ctorVars, rl, toolVars, other, reply, parsed, result, raised,
                   invoked, completions>>

NextLookup ==
    \/ Next
    \/ QueryProvider

SpecLookup == InitLookup /\ [][NextLookup]_vars

\* no file has been written into the working tree by create_fix_branch
NoWriteYet ==
    \A g \in 1..Len(git_log) : ~(git_log[g].op = "write" /\ git_log[g].ok)

\* the last of the files written so far whose filename is that of entry i
LastWriteOfName(i) ==
    CHOOSE j \in 1..(write_i - 1) :
        /\ Basename(fixed_files[j].k) = Basename(fixed_files[i].k)
        /\ \A x \in 1..(write_i - 1) :
               Basename(fixed_files[x].k) = Basename(fixed_files[i].k) => x <= j

\* C37: file_index maps each filename to the file with that name that was
\* scanned last, and each lookup by filename resolves to that file whatever
\* directory the request names: a stack frame is answered with it, the
\* CodeGenerator reads its text when nothing is preloaded, the callback is
\* handed its text as the original, and the fix is written to it
C37_LastWriteWins ==
    /\ file_index = last_scanned
    /\ query # <<>> =>
         \A f \in 1..Len(query[1].stack_trace) :
             LET name == Basename(query[1].stack_trace[f].file)
             IN  name \in DOMAIN last_scanned =>
                     \E i \in 1..Len(relevant_files) :
                         /\ relevant_files[i].path = last_scanned[name]
                         /\ relevant_files[i].relevance = "stack_trace"
    /\ NoWriteYet =>
         /\ \A j \in 1..Len(gen_calls) :
                LET key == gen_calls[j].key
                IN  (/\ DictGet(file_contents, key) = NoText
                     /\ Basename(key) \in DOMAIN last_scanned) =>
                        gen_calls[j].original = wt[last_scanned[Basename(key)]]
         /\ \A m \in 1..Len(cb_log) :
                /\ cb_log[m].filename \in DOMAIN last_scanned
                /\ cb_log[m].original = wt[last_scanned[cb_log[m].filename]]
    /\ pc = "GitWrite" =>
         \A i \in 1..(write_i - 1) :
             LET name == Basename(fixed_files[i].k)
             IN  name \in DOMAIN last_scanned =>
                     wt[last_scanned[name]] = fixed_files[LastWriteOfName(i)].c

\* b/F.java was scanned after a/F.java; the run was asked to fix a/F.java:
\* the text sent, the original handed to the callback and the file written
\* are those of b/F.java, and so is the answer to the frame naming a/F.java
C37_Witness ==
    /\ pc = "Returned"
    /\ result # <<>>
    /\ result[1].success
    /\ last_scanned["F.java"] = PathJoin(RepoRoot, <<"b", "F.java">>)
    /\ file_contents = EmptyMap
    /\ Len(fixed_files) = 1
    /\ fixed_files[1].k = <<"a", "F.java">>
    /\ fixed_files[1].c = "v1"
    /\ gen_calls[1].original = "v0"
    /\ Len(cb_log) = 1
    /\ cb_log[1].original = "v0"
    /\ wt[PathJoin(RepoRoot, <<"b", "F.java">>)] = "v1"
    /\ wt[PathJoin(RepoRoot, <<"a", "F.java">>)] = "v1"
    /\ query # <<>>
    /\ query[1].stack_trace[1].file = <<"a", "F.java">>
    /\ Len(relevant_files) = 1
    /\ relevant_files[1].path = PathJoin(RepoRoot, <<"b", "F.java">>)

(***************************************************************************)
(* The states of the CircuitBreaker between calls.                         *)
(***************************************************************************)
\* C38: once a call has returned or raised the breaker is closed or open,
\* never half-open; it is open exactly when failure_count has reached
\* failure_threshold; a call that returned left failure_count at 0; and a
\* trial call let through an open breaker that failed left it open
C38_BreakerBetweenCalls ==
    /\ breaker.state \in {"closed", "open"}
    /\ breaker.state = "open" <=>
           breaker.failure_count >= breaker.failure_threshold
    /\ \A i \in 1..Len(breaker.history) :
           LET h == breaker.history[i]
           IN  /\ h.after \in {"closed", "open"}
               /\ h.after = "open" <=> h.count >= breaker.failure_threshold
               /\ h.outcome = "returned" => h.count = 0 /\ h.after = "closed"
               /\ (h.before = "open" /\ h.outcome = "failed") =>
                      h.after = "open"

\* a breaker of threshold one opened, its trial call failed and left it
\* open with two failures counted, and the next trial call closed it
C38_Witness ==
    /\ breaker.failure_threshold = 1
    /\ Len(breaker.history) = 3
    /\ breaker.history[1].outcome = "failed"
    /\ breaker.history[1].after = "open"
    /\ breaker.history[2].before = "open"
    /\ breaker.history[2].outcome = "failed"
    /\ breaker.history[2].after = "open"
    /\ breaker.history[2].count = 2
    /\ breaker.history[3].before = "open"
    /\ breaker.history[3].outcome = "returned"
    /\ breaker.state = "closed"
    /\ breaker.failure_count = 0

(***************************************************************************)
(* RateLimiter.wait_if_needed: after some is_allowed calls, one caller     *)
(* enters the polling loop.  The loop blocks its thread, so no other call  *)
(* is put to the limiter while it runs; the unit of the clock is the       *)
(* polling interval.                                                       *)
(***************************************************************************)
\* number of is_allowed calls made before the wait
MaxPriorCalls == 3

\* RateLimiter(max_calls, period_seconds) with max_calls >= 1
InitWait ==
    /\ InitRL
    /\ rl.max_calls >= 1

\* what a step of the waiting loop leaves alone
notWaitVars == <<callVars, stageVars, genVars, cbVars, repoVars, gitVars,
                 ctorVars, query, relevant_files, reply, parsed, result,
                 raised, invoked, completions, toolVars, other>>

\* self.calls.get(key, [])
RecordedCalls(key) == IF key \in DOMAIN rl.calls THEN rl.calls[key] ELSE <<>>

\* the recorded calls of the key that are less than period_seconds old
RecentCalls(key) ==
    SelectSeq(RecordedCalls(key), LAMBDA t : rl.now - t < rl.period_seconds)

\* the earliest of the recorded calls of the key, or <<>>
OldestRecorded(key) ==
    LET c == RecordedCalls(key)
    IN  IF c = <<>> THEN <<>>
        ELSE << CHOOSE t \in { c[i] : i \in 1..Len(c) } :
                    \A i \in 1..Len(c) : t <= c[i] >>

\* is_allowed calls before the wait
IsAllowedBefore ==
    /\ pc = "Limiting"
    /\ Len(rl.history) < MaxPriorCalls
    /\ IsAllowed

\* the clock before the wait
TickBefore ==
    /\ pc = "Limiting"
    /\ Tick

\* wait_if_needed(key) is called
WaitIfNeeded ==
    /\ pc = "Limiting"
    /\ pc' = "Polling"
    /\ \E key \in RlKeys :
         rl' = [rl EXCEPT !.wait =
                  << [key |-> key, entered |-> rl.now,
                      oldest |-> OldestRecorded(key),
                      recorded |-> 0, denied |-> 0, returned |-> <<>>] >>]
    /\ UNCHANGED notWaitVars

\* `while not self.is_allowed(key)`: one evaluation of the loop condition
WaitPoll ==
    /\ pc = "Polling"
    /\ LET key    == rl.wait[1].key
           recent == RecentCalls(key)
           denied == LimitReached(recent, rl.max_calls)
           kept   == IF denied THEN RecordedOnDenial(recent, rl.now)
                     ELSE Append(recent, rl.now)
       IN  /\ rl' = [rl EXCEPT
                       !.calls = MapPut(@, key, kept),
                       !.wait = << [@[1] EXCEPT
                           !.recorded = @ + (Len(kept) - Len(recent)),
                           !.denied = IF denied THEN @ + 1 ELSE @,
                           !.returned = IF denied THEN <<>>
                                        ELSE << rl.now >>] >>]
           /\ pc' = IF denied THEN "Sleeping" ELSE "Waited"
    /\ UNCHANGED notWaitVars

\* time.sleep(0.1): one polling interval passes
WaitSleep ==
    /\ pc = "Sleeping"
    /\ rl.now <= MaxClock + MaxPeriodArg
    /\ rl' = [rl EXCEPT !.now = @ + 1]
    /\ pc' = "Polling"
    /\ UNCHANGED notWaitVars

NextWait ==
    \/ IsAllowedBefore
    \/ TickBefore
    \/ WaitIfNeeded
    \/ WaitPoll
    \/ WaitSleep

\* the loop is a running thread: its next step is taken
SpecWait ==
    InitWait /\ [][NextWait]_vars /\ WF_vars(WaitPoll) /\ WF_vars(WaitSleep)

\* a wait that has returned recorded one call, the one it returned on, no
\* later than period_seconds after the oldest call recorded when it
\* entered; a wait that has not returned has recorded none
WaitRecordsOnlyItsReturn ==
    rl.wait # <<>> =>
        LET w == rl.wait[1]
        IN  /\ w.returned = <<>> => w.recorded = 0
            /\ w.returned # <<>> =>
                 /\ w.recorded = 1
                 /\ RecordedCalls(w.key)[Len(RecordedCalls(w.key))]
                        = w.returned[1]
                 /\ w.oldest = <<>> => w.returned[1] = w.entered
                 /\ w.oldest # <<>> =>
                        w.returned[1] <= Max(w.entered,
                                             w.oldest[1] + rl.period_seconds)

\* C39: with max_calls >= 1 a wait_if_needed call returns, no later than
\* period_seconds after the oldest call recorded for the key, having
\* recorded exactly one new call; its denied polls record nothing
C39_WaitReturns ==
    /\ []WaitRecordsOnlyItsReturn
    /\ (pc = "Polling") ~> (pc = "Waited")

\* two calls filled the limit at time 0; the wait entered at time 0 was
\* denied twice and returned at time 2 = 0 + period_seconds
C39_Witness ==
    /\ pc = "Waited"
    /\ rl.max_calls = 2
    /\ rl.period_seconds = 2
    /\ rl.wait[1].entered = 0
    /\ rl.wait[1].oldest = << 0 >>
    /\ rl.wait[1].denied = 2
    /\ rl.wait[1].recorded = 1
    /\ rl.wait[1].returned = << 2 >>

(***************************************************************************)
(* Two runs on one clone, interleaved at the subprocess calls and file     *)
(* writes of create_fix_branch.  One run is running and one is suspended   *)
(* in `other`; Switch hands the processor to the suspended one.  The       *)
(* repository (branches, HEAD, index, working tree) is the one clone both  *)
(* runs work in; nothing in create_fix_branch takes a lock on it.          *)
(***************************************************************************)
\* what belongs to the run that is running
RunOf(p, l, fc, cb, a, ec, s, gi, ff, gc, ci, cl, bn, wi, r, ra, inv, co) ==
    [pc |-> p, logs |-> l, file_contents |-> fc, callback |-> cb,
     analysis |-> a, error_context |-> ec, solution |-> s, gen_i |-> gi,
     fixed_files |-> ff, gen_calls |-> gc, cb_i |-> ci, cb_log |-> cl,
     branch_name |-> bn, write_i |-> wi, result |-> r, raised |-> ra,
     invoked |-> inv, completions |-> co]

\* a run that has not been started
NotStarted ==
    RunOf("Idle", <<>>, EmptyMap, FALSE, <<>>, <<>>, <<>>, 1, <<>>, <<>>, 1,
          <<>>, <<>>, 1, <<>>, "", [a \in Agents |-> 0], 0)

\* an Orchestrator on a fresh clone, with room for a second run
InitTwoRuns ==
    /\ pc = "Idle"
    /\ rag = TRUE
    /\ repo_path = RepoRoot
    /\ \E w \in InitialTrees :
         /\ \A p \in DOMAIN w : w[p] = "v0"
         /\ CloneOf(w)
         /\ \E o \in ScanOrders(FilesIn(w)) :
              /\ file_index = BuildFileIndex(o)
              /\ class_index = BuildClassIndex(o, w)
              /\ last_scanned = LastScanned(o)
    /\ RunIdle
    /\ rl = RlIdle
    /\ ToolsIdle
    /\ query = <<>>
    /\ relevant_files = <<>>
    /\ reply = <<>>
    /\ parsed = <<>>
    /\ other = << NotStarted >>

\* the running run is suspended and the other one goes on
Switch ==
    /\ other # <<>>
    /\ other' = << RunOf(pc, logs, file_contents, callback, analysis,
                         error_context, solution, gen_i, fixed_files,
                         gen_calls, cb_i, cb_log, branch_name, write_i,
                         result, raised, invoked, completions) >>
    /\ pc' = other[1].pc
    /\ logs' = other[1].logs
    /\ file_contents' = other[1].file_contents
    /\ callback' = other[1].callback
    /\ analysis' = other[1].analysis
    /\ error_context' = other[1].error_context
    /\ solution' = other[1].solution
    /\ gen_i' = other[1].gen_i
    /\ fixed_files' = other[1].fixed_files
    /\ gen_calls' = other[1].gen_calls
    /\ cb_i' = other[1].cb_i
    /\ cb_log' = other[1].cb_log
    /\ branch_name' = other[1].branch_name
    /\ write_i' = other[1].write_i
    /\ result' = other[1].result
    /\ raised' = other[1].raised
    /\ invoked' = other[1].invoked
    /\ completions' = other[1].completions
    /\ UNCHANGED <<repoVars, ctorVars, rl, toolVars, query, relevant_files,
                   reply, parsed>>

\* each of the two runs is one process_logs call
StartRun ==
    /\ pc = "Idle"
    /\ RunReachesGit

NextTwoRuns ==
    \/ StartRun
    \/ Switch
    \/ CreateFixBranch
    \/ GitWriteFile
    \/ GitAddAll
    \/ GitNoChanges
    \/ GitCommit

SpecTwoRuns == InitTwoRuns /\ [][NextTwoRuns]_vars

\* a branch is created from the checked-out branch, whichever run created
\* that one, and takes over the working tree and the staging area as they are
BranchedFromCheckedOut ==
    \A b \in branches' \ branches :
        /\ tree'[b] = tree[head]
        /\ commits'[b] = commits[head]
        /\ wt' = wt
        /\ index' = index

\* staging takes the whole working tree, whichever run wrote to it
StagedEverything == index' # index => index' = wt

\* a commit goes to the checked-out branch with everything staged
CommittedToCheckedOut ==
    \A b \in (DOMAIN commits) \cap (DOMAIN commits') :
        commits'[b] # commits[b] =>
            /\ b = head
            /\ tree'[b] = index
            /\ Len(commits'[b]) = Len(commits[b]) + 1

\* a file write goes into the one working tree, whatever branch is checked
\* out and whichever run checked it out
WroteIntoSharedTree ==
    (git_log' = Append(git_log, [op |-> "write", ok |-> TRUE])) =>
        /\ wt'[TargetPath(fixed_files[write_i].k)] = fixed_files[write_i].c
        /\ UNCHANGED <<head, index, tree>>

\* C40: in every interleaving of two runs on one clone, a branch is created
\* from whatever is checked out, files are written into the shared working
\* tree, everything in it is staged and the commit goes to the checked-out
\* branch: nothing keeps the runs apart
C40_SharedCloneUnprotected ==
    [][/\ BranchedFromCheckedOut
       /\ StagedEverything
       /\ CommittedToCheckedOut
       /\ WroteIntoSharedTree]_vars

\* one run created its branch and wrote its file; before it staged it the
\* other run created its branch on top of the first one's, wrote another
\* file and committed: its commit holds the first run's file
C40_Witness ==
    /\ pc = "Returned"
    /\ result # <<>>
    /\ result[1].success
    /\ other # <<>>
    /\ other[1].pc = "GitWrite"
    /\ other[1].write_i = 2
    /\ other[1].branch_name \in branches
    /\ other[1].branch_name # branch_name
    /\ prev = other[1].branch_name
    /\ head = branch_name
    /\ commits[other[1].branch_name] = <<>>
    /\ Len(commits[branch_name]) = 1
    /\ other[1].fixed_files[1].k # fixed_files[1].k
    /\ TargetPath(other[1].fixed_files[1].k) # TargetPath(fixed_files[1].k)
    /\ other[1].fixed_files[1].c = "v1"
    /\ tree[branch_name][TargetPath(other[1].fixed_files[1].k)] = "v1"
    /\ tree[MainBranch][TargetPath(other[1].fixed_files[1].k)] = "v0"

====
